---------------------------- MODULE Spec2Model ----------------------------
(***************************************************************************)
(* A model of gallica_mcp: the boolean query parser (query_parser.py) and  *)
(* the request orchestration of GallicaClient (client.py).                 *)
(*                                                                         *)
(* Python strings are modelled as sequences of one-character strings, so   *)
(* that tokenizing, escaping and string composition are computed character *)
(* by character as the code does.                                          *)
(***************************************************************************)
EXTENDS Integers, Sequences, FiniteSets, TLC

VARIABLES
    \* ---- build_text_query_clause (query_parser.py) ----
    expr,        \* the argument of build_text_query_clause
    ppc,         \* position inside build_text_query_clause
    tokens,      \* _BooleanQueryParser._tokens
    ast,         \* the node returned by parse()
    clause,      \* the returned clause
    perr,        \* the QueryParseError raised, "" when none
    \* ---- one term through _emit_cql and back through _tokenize ----
    term,        \* a _TermNode
    epc,         \* position of the round trip
    fragment,    \* the fragment _emit_cql returns for term
    reread,      \* the tokens _tokenize reads from fragment
    \* ---- GallicaClient.search (client.py) ----
    sargs,       \* the arguments of the call
    spc,         \* position inside search
    cqlParts,    \* the list parts of _build_cql_query when it returned
    cql,         \* cql_query
    params,      \* the request parameters search has computed
    serr,        \* the exception that left search, "" when none
    requests,    \* the HTTP requests search has issued, oldest first
    served,      \* what the await of the request gives this call
    result,      \* what search returned
    \* ---- GallicaClient._rate_limited_get (client.py) ----
    now,             \* loop.time(), the event loop's clock
    minInterval,     \* self._min_request_interval
    maxConcurrent,   \* max_concurrent_requests, the semaphore's initial value
    semValue,        \* the value of self._request_semaphore
    lockHolder,      \* the task holding self._rate_limit_lock, 0 when free
    lastRequestTime, \* self._last_request_time
    lpc,             \* each task's position inside _rate_limited_get
    wakeAt,          \* the time each sleeping task asked to be woken at
    outcome,         \* how each task's last call ended
    started,         \* the calls of self.client.get so far, oldest first
    \* ---- GallicaClient.download_text (client.py) ----
    files,       \* the files of cache_dir, by the name clean_id
    writes,      \* how many times each file has been written
    dl,          \* each task's call of download_text in progress
    done,        \* the calls of download_text that have ended, oldest first
    \* ---- GallicaClient.get_snippets (client.py) ----
    sn,          \* each task's call of get_snippets in progress
    snDone,      \* the calls of get_snippets that have ended, oldest first
    \* ---- GallicaClient._html_to_plain_text (client.py) ----
    htmlText,    \* html_text, the page given to the call
    npc,         \* position inside _html_to_plain_text
    ntext        \* the local variable text

parserVars == <<expr, ppc, tokens, ast, clause, perr>>
escapeVars == <<term, epc, fragment, reread>>
searchVars == <<sargs, spc, cqlParts, cql, params, serr, requests, served, result>>
fetchVars ==
    <<now, minInterval, maxConcurrent, semValue, lockHolder, lastRequestTime,
      lpc, wakeAt, outcome, started>>
cacheVars == <<files, writes, dl, done>>
snippetVars == <<sn, snDone>>
normVars == <<htmlText, npc, ntext>>

vars == <<parserVars, escapeVars, searchVars, fetchVars, cacheVars, snippetVars, normVars>>

-----------------------------------------------------------------------------
(* Characters and strings                                                  *)

DQ == "\""
BS == "\\"
SP == " "

\* str.isspace() on the characters the model uses
IsSpace(ch) == ch \in {" ", "\t", "\n", "\r", "\f"}

LowerLetters == <<"a","b","c","d","e","f","g","h","i","j","k","l","m",
                  "n","o","p","q","r","s","t","u","v","w","x","y","z">>
UpperLetters == <<"A","B","C","D","E","F","G","H","I","J","K","L","M",
                  "N","O","P","Q","R","S","T","U","V","W","X","Y","Z">>

\* str.upper() on one character
UpperChar(ch) ==
    IF \E k \in 1..26 : LowerLetters[k] = ch
    THEN UpperLetters[CHOOSE k \in 1..26 : LowerLetters[k] = ch]
    ELSE ch

\* str.upper()
Upper(s) == [k \in 1..Len(s) |-> UpperChar(s[k])]

RECURSIVE Flatten(_)
\* "".join(parts)
Flatten(parts) ==
    IF parts = <<>> THEN <<>> ELSE Head(parts) \o Flatten(Tail(parts))

RECURSIVE Join(_, _)
\* sep.join(parts)
Join(parts, sep) ==
    IF parts = <<>> THEN <<>>
    ELSE IF Len(parts) = 1 THEN parts[1]
    ELSE parts[1] \o sep \o Join(Tail(parts), sep)

RECURSIVE LStrip(_)
LStrip(s) == IF s # <<>> /\ IsSpace(Head(s)) THEN LStrip(Tail(s)) ELSE s

RECURSIVE RStrip(_)
RStrip(s) ==
    IF s # <<>> /\ IsSpace(s[Len(s)]) THEN RStrip(SubSeq(s, 1, Len(s) - 1)) ELSE s

\* str.strip()
Strip(s) == RStrip(LStrip(s))


-----------------------------------------------------------------------------
(* query_parser.py: _tokenize                                              *)

Token(type, value) == [type |-> type, value |-> value]

KwAND == <<"A", "N", "D">>
KwOR  == <<"O", "R">>
KwNOT == <<"N", "O", "T">>

RECURSIVE ScanPhrase(_, _, _, _)
\* The inner loop of _tokenize that reads a quoted phrase (lines 36-52).
\* i is the 1-based position of the next character, buf the characters
\* kept so far. closed = FALSE is the loop's else branch (the input ended
\* before an unescaped quote); next is the position after the closing quote.
ScanPhrase(e, i, buf, escaped) ==
    IF i > Len(e) THEN [closed |-> FALSE, value |-> buf, next |-> i]
    ELSE IF escaped THEN ScanPhrase(e, i + 1, Append(buf, e[i]), FALSE)
    ELSE IF e[i] = BS THEN ScanPhrase(e, i + 1, buf, TRUE)
    ELSE IF e[i] = DQ THEN [closed |-> TRUE, value |-> buf, next |-> i + 1]
    ELSE ScanPhrase(e, i + 1, Append(buf, e[i]), FALSE)

RECURSIVE WordEnd(_, _)
\* The scan of a bare word (lines 66-73): the first position at or after i
\* that holds whitespace or one of ( ) " ! , or Len(e)+1.
WordEnd(e, i) ==
    IF i <= Len(e) /\ ~IsSpace(e[i]) /\ e[i] \notin {"(", ")", DQ, "!"}
    THEN WordEnd(e, i + 1)
    ELSE i

\* The classification of a bare word (lines 75-84).
WordToken(value) ==
    LET upper_value == Upper(value)
    IN  IF upper_value \in {KwAND, <<"&", "&">>} THEN Token("AND", KwAND)
        ELSE IF upper_value \in {KwOR, <<"|", "|">>} THEN Token("OR", KwOR)
        ELSE IF upper_value \in {KwNOT} THEN Token("NOT", KwNOT)
        ELSE Token("WORD", value)

RECURSIVE TokenizeFrom(_, _, _)
\* The outer loop of _tokenize from position i with the tokens read so far.
TokenizeFrom(e, i, toks) ==
    IF i > Len(e) THEN [ok |-> TRUE, tokens |-> toks]
    ELSE IF IsSpace(e[i]) THEN TokenizeFrom(e, i + 1, toks)
    ELSE IF e[i] = DQ THEN
        LET ph == ScanPhrase(e, i + 1, <<>>, FALSE)
        IN  IF ~ph.closed THEN [ok |-> FALSE, tokens |-> <<>>]
            ELSE TokenizeFrom(e, ph.next, Append(toks, Token("PHRASE", ph.value)))
    ELSE IF e[i] \in {"(", ")"} THEN
        TokenizeFrom(e, i + 1,
            Append(toks, Token(IF e[i] = "(" THEN "LPAREN" ELSE "RPAREN", <<e[i]>>)))
    ELSE IF e[i] = "!" THEN TokenizeFrom(e, i + 1, Append(toks, Token("NOT", KwNOT)))
    ELSE LET j == WordEnd(e, i)
         IN  TokenizeFrom(e, j, Append(toks, WordToken(SubSeq(e, i, j - 1))))

\* _tokenize(expr): ok = FALSE stands for QueryParseError("Unterminated
\* quoted phrase").
Tokenize(e) == TokenizeFrom(e, 1, <<>>)

-----------------------------------------------------------------------------
(* query_parser.py: the AST and _BooleanQueryParser                        *)

\* Every node has the same fields so that nodes of different classes can be
\* compared; a term has no children, a _NotNode exactly one.
TermNode(value, exact) ==
    [type |-> "term", value |-> value, exact |-> exact, children |-> <<>>]
NotNode(child) ==
    [type |-> "not", value |-> <<>>, exact |-> FALSE, children |-> <<child>>]
AndNode(children) ==
    [type |-> "and", value |-> <<>>, exact |-> FALSE, children |-> children]
OrNode(children) ==
    [type |-> "or", value |-> <<>>, exact |-> FALSE, children |-> children]
NoNode == [type |-> "none", value |-> <<>>, exact |-> FALSE, children |-> <<>>]

\* The result of a parsing method: the node, the parser's _index afterwards
\* (1-based: idx = _index + 1) and the message of the QueryParseError raised
\* ("" when the method returned).
Parsed(node, idx) == [node |-> node, idx |-> idx, err |-> ""]
Raised(msg, idx) == [node |-> NoNode, idx |-> idx, err |-> msg]

\* _peek: the type of the token at idx, "" when the tokens are exhausted
PeekType(toks, idx) == IF idx > Len(toks) THEN "" ELSE toks[idx].type

\* _match(token_type): whether the token at idx has that type
Match(toks, idx, token_type) == PeekType(toks, idx) = token_type

\* a lookahead that does not take NOT for the start of an expression
NextStartsExpressionNoNot(toks, idx) ==
    PeekType(toks, idx) \in {"WORD", "PHRASE", "LPAREN"}

\* _next_starts_expression
NextStartsExpression(toks, idx) ==
    PeekType(toks, idx) \in {"WORD", "PHRASE", "LPAREN", "NOT"}

RECURSIVE ParseOr(_, _)
RECURSIVE OrLoop(_, _, _)
RECURSIVE ParseAnd(_, _)
RECURSIVE AndLoop(_, _, _)
RECURSIVE ParseNot(_, _)
RECURSIVE ParsePrimary(_, _)

\* _parse_primary
ParsePrimary(toks, idx) ==
    IF idx > Len(toks) THEN Raised("Unexpected end of query", idx)
    ELSE IF toks[idx].type = "LPAREN" THEN
        LET r == ParseOr(toks, idx + 1)
        IN  IF r.err # "" THEN r
            ELSE IF ~Match(toks, r.idx, "RPAREN")
                 THEN Raised("Missing closing parenthesis", r.idx)
            ELSE Parsed(r.node, r.idx + 1)
    ELSE IF toks[idx].type = "PHRASE" THEN Parsed(TermNode(toks[idx].value, TRUE), idx + 1)
    ELSE IF toks[idx].type = "WORD" THEN Parsed(TermNode(toks[idx].value, FALSE), idx + 1)
    ELSE Raised("Unexpected token", idx)

\* _parse_not
ParseNot(toks, idx) ==
    IF Match(toks, idx, "NOT") THEN
        LET r == ParseNot(toks, idx + 1)
        IN  IF r.err # "" THEN r ELSE Parsed(NotNode(r.node), r.idx)
    ELSE ParsePrimary(toks, idx)

\* AndLoop without the implicit AND of line 146: an explicit AND token is
\* required between two sub-expressions.
AndLoopExplicitOnly(toks, idx, children) ==
    IF Match(toks, idx, "AND") THEN
        LET r == ParseNot(toks, idx + 1)
        IN  IF r.err # "" THEN r ELSE AndLoop(toks, r.idx, Append(children, r.node))
    ELSE IF Len(children) = 1 THEN Parsed(children[1], idx)
    ELSE Parsed(AndNode(children), idx)

\* the while loop of _parse_and (lines 143-152)
AndLoop(toks, idx, children) ==
    IF Match(toks, idx, "AND") THEN
        LET r == ParseNot(toks, idx + 1)
        IN  IF r.err # "" THEN r ELSE AndLoop(toks, r.idx, Append(children, r.node))
    ELSE IF NextStartsExpression(toks, idx) THEN
        LET r == ParseNot(toks, idx)
        IN  IF r.err # "" THEN r ELSE AndLoop(toks, r.idx, Append(children, r.node))
    ELSE IF Len(children) = 1 THEN Parsed(children[1], idx)
    ELSE Parsed(AndNode(children), idx)

\* _parse_and
ParseAnd(toks, idx) ==
    LET r == ParseNot(toks, idx)
    IN  IF r.err # "" THEN r ELSE AndLoop(toks, r.idx, <<r.node>>)

\* the while loop of _parse_or (lines 134-138)
OrLoop(toks, idx, children) ==
    IF Match(toks, idx, "OR") THEN
        LET r == ParseAnd(toks, idx + 1)
        IN  IF r.err # "" THEN r ELSE OrLoop(toks, r.idx, Append(children, r.node))
    ELSE IF Len(children) = 1 THEN Parsed(children[1], idx)
    ELSE Parsed(OrNode(children), idx)

\* _parse_or
ParseOr(toks, idx) ==
    LET r == ParseAnd(toks, idx)
    IN  IF r.err # "" THEN r ELSE OrLoop(toks, r.idx, <<r.node>>)

\* Parse without the check of lines 126-128 that every token was consumed.
ParseNoTrailingCheck(toks) ==
    IF toks = <<>> THEN Raised("Query is empty", 1)
    ELSE ParseOr(toks, 1)

\* _BooleanQueryParser.parse
Parse(toks) ==
    IF toks = <<>> THEN Raised("Query is empty", 1)
    ELSE LET r == ParseOr(toks, 1)
         IN  IF r.err # "" THEN r
             ELSE IF r.idx # Len(toks) + 1 THEN Raised("Unexpected token", r.idx)
             ELSE r

-----------------------------------------------------------------------------
(* query_parser.py: _escape_cql_literal, _emit_cql                         *)

PREC_TERM == 4
PREC_NOT == 3
PREC_AND == 2
PREC_OR == 1

RECURSIVE Replace(_, _, _)
\* str.replace(old, new) for a one-character old
Replace(s, old, new) ==
    IF s = <<>> THEN <<>>
    ELSE (IF Head(s) = old THEN new ELSE <<Head(s)>>) \o Replace(Tail(s), old, new)

\* _escape_cql_literal with the two replace calls in the other order
EscapeQuotesFirst(value) == Replace(Replace(value, DQ, <<BS, DQ>>), BS, <<BS, BS>>)

\* _escape_cql_literal: two passes, backslashes first, then double quotes
EscapeCqlLiteral(value) == Replace(Replace(value, BS, <<BS, BS>>), DQ, <<BS, DQ>>)

Emitted(str, prec) == [str |-> str, prec |-> prec]

\* Wrap with <= in place of < : a child of equal rank is parenthesized too.
WrapLoose(child, parentPrec) ==
    IF child.prec <= parentPrec THEN <<"(">> \o child.str \o <<")">> ELSE child.str

\* The parenthesizing of a child's fragment against its parent's rank
\* (lines 227-228, 235-236, 244-245).
Wrap(child, parentPrec) ==
    IF child.prec < parentPrec THEN <<"(">> \o child.str \o <<")">> ELSE child.str

TextRelation(exact) ==
    IF exact THEN <<"t","e","x","t"," ","a","d","j"," ">>
    ELSE <<"t","e","x","t"," ","a","l","l"," ">>

RECURSIVE EmitCql(_)
\* _emit_cql(node) -> (fragment, precedence)
EmitCql(node) ==
    IF node.type = "term" THEN
        Emitted(TextRelation(node.exact) \o <<DQ>> \o EscapeCqlLiteral(node.value) \o <<DQ>>,
                PREC_TERM)
    ELSE IF node.type = "not" THEN
        Emitted(<<"n","o","t"," ">> \o Wrap(EmitCql(node.children[1]), PREC_NOT), PREC_NOT)
    ELSE IF node.type = "and" THEN
        Emitted(Join([k \in 1..Len(node.children) |-> Wrap(EmitCql(node.children[k]), PREC_AND)],
                     <<" ","a","n","d"," ">>), PREC_AND)
    ELSE
        Emitted(Join([k \in 1..Len(node.children) |-> Wrap(EmitCql(node.children[k]), PREC_OR)],
                     <<" ","o","r"," ">>), PREC_OR)

\* build_text_query_clause(expr): ok = FALSE stands for the QueryParseError
\* that propagates out of it, err its message.
BuildTextQueryClause(e) ==
    LET tk == Tokenize(Strip(e))
    IN  IF ~tk.ok THEN [ok |-> FALSE, clause |-> <<>>, err |-> "Unterminated quoted phrase"]
        ELSE LET r == Parse(tk.tokens)
             IN  IF r.err # "" THEN [ok |-> FALSE, clause |-> <<>>, err |-> r.err]
                 ELSE [ok |-> TRUE, clause |-> EmitCql(r.node).str, err |-> ""]

-----------------------------------------------------------------------------
(* The inputs of build_text_query_clause                                    *)

MaxLexemes == 4
MaxChars == 4

SeqsUpTo(S, n) == UNION {[1..k -> S] : k \in 0..n}

\* Lexemes that are written separated by single spaces:
\*   a   "p q"   AND   OR   NOT   (   )
Lexemes ==
    {<<"a">>, <<DQ,"p"," ","q",DQ>>, KwAND, KwOR, KwNOT, <<"(">>, <<")">>}
LexemeInputs == {Join(ls, <<SP>>) : ls \in SeqsUpTo(Lexemes, MaxLexemes)}

\* Every string over these characters, for the tokenizer's own rules
\* (adjacent lexemes, escapes, unterminated phrases, blanks).
RawChars == {"a", SP, DQ, BS, "(", "!"}
RawInputs == SeqsUpTo(RawChars, MaxChars)

\* magic AND (illusion OR escape) NOT "card tricks"
InMagic ==
    <<"m","a","g","i","c"," ","A","N","D"," ","(","i","l","l","u","s","i","o","n"," ",
      "O","R"," ","e","s","c","a","p","e",")"," ","N","O","T"," ",
      DQ,"c","a","r","d"," ","t","r","i","c","k","s",DQ>>
\* a OR b AND c
InOrAnd == <<"a"," ","O","R"," ","b"," ","A","N","D"," ","c">>
\* (a OR b) AND c
InParenOrAnd == <<"(","a"," ","O","R"," ","b",")"," ","A","N","D"," ","c">>

\* Named inputs: the scenarios above and the other spellings of the
\* operators (&&, ||, !, lower and mixed case).
ScenarioInputs ==
    { InMagic, InOrAnd, InParenOrAnd,
      <<"a"," ","&","&"," ","b">>,            \* a && b
      <<"a"," ","|","|"," ","b">>,            \* a || b
      <<"a"," ","a","n","d"," ","!","b">>,    \* a and !b
      <<"a"," ","O","r"," ","n","o","t"," ","b">>,   \* a Or not b
      <<"N","O","T"," ","(","a"," ","O","R"," ","b",")">>,   \* NOT (a OR b)
      <<"(","a"," ","b",")"," ","c">>,        \* (a b) c
      <<DQ,"x",BS,DQ,"y",BS,BS,DQ>>,          \* "x\"y\\"
      <<SP,"a",SP,"b","\t">> }

Inputs == ScenarioInputs \cup LexemeInputs \cup RawInputs

-----------------------------------------------------------------------------
(* build_text_query_clause as a run of its three statements                *)

ParserIdle ==
    /\ expr = <<>>
    /\ ppc = "off"
    /\ tokens = <<>>
    /\ ast = NoNode
    /\ clause = <<>>
    /\ perr = ""

\* An optional argument: None, or a value.
None == [set |-> FALSE, v |-> <<>>]
Some(v) == [set |-> TRUE, v |-> v]

NoArgs ==
    [query |-> <<>>, page |-> 1, records_per_page |-> 50, creators |-> None,
     doc_types |-> None, date_start |-> None, date_end |-> None, language |-> None,
     title |-> None, public_domain_only |-> TRUE, exact_search |-> TRUE]

\* the parameters of a request that has not been computed yet
NoParams ==
    [version |-> "", operation |-> "", query |-> <<>>, startRecord |-> <<>>,
     maximumRecords |-> <<>>, collapsing |-> "", exactSearch |-> ""]

SearchIdle ==
    /\ sargs = NoArgs
    /\ spc = "off"
    /\ cqlParts = <<>>
    /\ cql = <<>>
    /\ params = NoParams
    /\ serr = ""
    /\ requests = <<>>
    /\ served = <<>>
    /\ result = <<>>

EscapeIdle ==
    /\ term = NoNode
    /\ epc = "off"
    /\ fragment = <<>>
    /\ reread = <<>>

MaxTasks == 3
Tasks == 1..MaxTasks

\* a client that no task calls
FetchIdle ==
    /\ now = 0
    /\ minInterval = 0
    /\ maxConcurrent = 1
    /\ semValue = 1
    /\ lockHolder = 0
    /\ lastRequestTime = 0
    /\ lpc = [t \in Tasks |-> "off"]
    /\ wakeAt = [t \in Tasks |-> 0]
    /\ outcome = [t \in Tasks |-> "none"]
    /\ started = <<>>

\* a cache directory that no task uses
CacheIdle ==
    /\ files = <<>>
    /\ writes = <<>>
    /\ dl = <<>>
    /\ done = <<>>

\* no call of get_snippets
SnippetIdle ==
    /\ sn = <<>>
    /\ snDone = <<>>

\* no call of _html_to_plain_text
NormIdle ==
    /\ htmlText = <<>>
    /\ npc = "off"
    /\ ntext = <<>>

InitParse ==
    /\ EscapeIdle
    /\ FetchIdle
    /\ CacheIdle
    /\ SnippetIdle
    /\ NormIdle
    /\ SearchIdle
    /\ expr \in Inputs
    /\ ppc = "start"
    /\ tokens = <<>>
    /\ ast = NoNode
    /\ clause = <<>>
    /\ perr = ""

\* parser = _BooleanQueryParser(expr.strip())
TokenizeStep ==
    /\ ppc = "start"
    /\ LET tk == Tokenize(Strip(expr))
       IN  IF tk.ok
           THEN /\ tokens' = tk.tokens
                /\ ppc' = "tokenized"
                /\ perr' = perr
           ELSE /\ tokens' = tokens
                /\ ppc' = "raised"
                /\ perr' = "Unterminated quoted phrase"
    /\ UNCHANGED <<expr, ast, clause, escapeVars, searchVars, fetchVars, cacheVars, snippetVars, normVars>>

\* node = parser.parse()
ParseStep ==
    /\ ppc = "tokenized"
    /\ LET r == Parse(tokens)
       IN  IF r.err = ""
           THEN /\ ast' = r.node
                /\ ppc' = "parsed"
                /\ perr' = perr
           ELSE /\ ast' = ast
                /\ ppc' = "raised"
                /\ perr' = r.err
    /\ UNCHANGED <<expr, tokens, clause, escapeVars, searchVars, fetchVars, cacheVars, snippetVars, normVars>>

\* clause, _ = _emit_cql(node); return clause
EmitStep ==
    /\ ppc = "parsed"
    /\ clause' = EmitCql(ast).str
    /\ ppc' = "returned"
    /\ UNCHANGED <<expr, tokens, ast, perr, escapeVars, searchVars, fetchVars, cacheVars, snippetVars, normVars>>

NextParse == TokenizeStep \/ ParseStep \/ EmitStep

SpecParse == InitParse /\ [][NextParse]_vars

-----------------------------------------------------------------------------
(* Properties of build_text_query_clause, checked under SpecParse           *)

\* text all "magic" and (text all "illusion" or text all "escape") not text adj "card tricks"
OutMagicBinaryNot ==
    <<"t","e","x","t"," ","a","l","l"," ",DQ,"m","a","g","i","c",DQ," ","a","n","d"," ",
      "(","t","e","x","t"," ","a","l","l"," ",DQ,"i","l","l","u","s","i","o","n",DQ," ","o","r"," ",
      "t","e","x","t"," ","a","l","l"," ",DQ,"e","s","c","a","p","e",DQ,")"," ",
      "n","o","t"," ","t","e","x","t"," ","a","d","j"," ",DQ,"c","a","r","d"," ","t","r","i","c","k","s",DQ>>

\* text all "magic" and (text all "illusion" or text all "escape") and not text adj "card tricks"
OutMagicAndNot ==
    <<"t","e","x","t"," ","a","l","l"," ",DQ,"m","a","g","i","c",DQ," ","a","n","d"," ",
      "(","t","e","x","t"," ","a","l","l"," ",DQ,"i","l","l","u","s","i","o","n",DQ," ","o","r"," ",
      "t","e","x","t"," ","a","l","l"," ",DQ,"e","s","c","a","p","e",DQ,")"," ","a","n","d"," ",
      "n","o","t"," ","t","e","x","t"," ","a","d","j"," ",DQ,"c","a","r","d"," ","t","r","i","c","k","s",DQ>>

ParseEnded == ppc \in {"returned", "raised"}

\* C1 as stated: build_text_query_clause applied to
\*   magic AND (illusion OR escape) NOT "card tricks"
\* returns exactly
\*   text all "magic" and (text all "illusion" or text all "escape") not text adj "card tricks"
C1_MagicReturnsBinaryNot ==
    (expr = InMagic /\ ParseEnded) => (ppc = "returned" /\ clause = OutMagicBinaryNot)

\* C1 amended: on that input build_text_query_clause returns exactly
\*   text all "magic" and (text all "illusion" or text all "escape") and not text adj "card tricks"
\* (the implicit AND before NOT is emitted as " and ", NOT as the prefix "not ").
C1_MagicReturnsAndNot ==
    (expr = InMagic /\ ParseEnded) => (ppc = "returned" /\ clause = OutMagicAndNot)

C1_Witness == expr = InMagic /\ ppc = "returned"

\* The rank the claim gives each node class: term=4, not=3, and=2, or=1.
RankOf(node) ==
    CASE node.type = "term" -> 4
      [] node.type = "not" -> 3
      [] node.type = "and" -> 2
      [] node.type = "or" -> 1

Operator(node) ==
    CASE node.type = "and" -> <<" ","a","n","d"," ">>
      [] node.type = "or" -> <<" ","o","r"," ">>

RECURSIVE RenderByRank(_)
\* The text of a node when a child is parenthesized if and only if its rank is
\* strictly lower than its parent's.
RenderByRank(node) ==
    LET Child(k) ==
            LET c == node.children[k]
            IN  IF RankOf(c) < RankOf(node)
                THEN <<"(">> \o RenderByRank(c) \o <<")">>
                ELSE RenderByRank(c)
    IN  IF node.type = "term"
        THEN TextRelation(node.exact) \o <<DQ>> \o EscapeCqlLiteral(node.value) \o <<DQ>>
        ELSE IF node.type = "not" THEN <<"n","o","t"," ">> \o Child(1)
        ELSE Join([k \in 1..Len(node.children) |-> Child(k)], Operator(node))

\* text all "a" or text all "b" and text all "c"
OutOrAnd ==
    <<"t","e","x","t"," ","a","l","l"," ",DQ,"a",DQ," ","o","r"," ",
      "t","e","x","t"," ","a","l","l"," ",DQ,"b",DQ," ","a","n","d"," ",
      "t","e","x","t"," ","a","l","l"," ",DQ,"c",DQ>>
\* (text all "a" or text all "b") and text all "c"
OutParenOrAnd ==
    <<"(","t","e","x","t"," ","a","l","l"," ",DQ,"a",DQ," ","o","r"," ",
      "t","e","x","t"," ","a","l","l"," ",DQ,"b",DQ,")"," ","a","n","d"," ",
      "t","e","x","t"," ","a","l","l"," ",DQ,"c",DQ>>

\* C2: for every AST the parser produces, the emitted clause parenthesizes a
\* child if and only if the child's rank (term=4, not=3, and=2, or=1) is
\* strictly lower than its parent's; "a OR b AND c" is emitted without
\* parentheses, "(a OR b) AND c" with parentheses around the OR clause, and
\* the two texts differ.
C2_ParenthesesByRank ==
    /\ ppc = "returned" => clause = RenderByRank(ast)
    /\ (expr = InOrAnd /\ ParseEnded) => (ppc = "returned" /\ clause = OutOrAnd)
    /\ (expr = InParenOrAnd /\ ParseEnded) => (ppc = "returned" /\ clause = OutParenOrAnd)
    /\ OutOrAnd # OutParenOrAnd

\* a returned clause in which one child is parenthesized and another is not
C2_Witness ==
    /\ ppc = "returned"
    /\ ast.type = "and"
    /\ \E k \in 1..Len(ast.children) : ast.children[k].type = "or"
    /\ \E k \in 1..Len(ast.children) : ast.children[k].type = "term"

RECURSIVE PhraseOpenAtEnd(_, _, _)
\* Whether the input ends inside a quoted phrase: mode is "out" outside a
\* phrase, "in" inside one, "esc" right after a backslash inside one.
PhraseOpenAtEnd(e, i, mode) ==
    IF i > Len(e) THEN mode # "out"
    ELSE PhraseOpenAtEnd(e, i + 1,
            CASE mode = "out" -> IF e[i] = DQ THEN "in" ELSE "out"
              [] mode = "in" -> IF e[i] = BS THEN "esc" ELSE IF e[i] = DQ THEN "out" ELSE "in"
              [] mode = "esc" -> "in")

\* the number of tokens of type ty among the first n
CountType(toks, n, ty) == Cardinality({k \in 1..n : toks[k].type = ty})

\* a closing parenthesis is unmatched, or an opening one is never closed
ParensUnbalanced(toks) ==
    \/ \E n \in 1..Len(toks) : CountType(toks, n, "RPAREN") > CountType(toks, n, "LPAREN")
    \/ CountType(toks, Len(toks), "LPAREN") > CountType(toks, Len(toks), "RPAREN")

\* a primary is expected (at the start, or after AND, OR, NOT or '(') where
\* the stream ends or holds AND, OR or ')'
PrimaryMissing(toks) ==
    \E i \in 1..(Len(toks) + 1) :
        /\ i = 1 \/ toks[i - 1].type \in {"AND", "OR", "NOT", "LPAREN"}
        /\ i = Len(toks) + 1 \/ toks[i].type \in {"AND", "OR", "RPAREN"}

\* The inputs C5 lists. Tokens that remain after a complete expression start
\* with an unmatched ')' (any other token continues the expression), so
\* that case is part of ParensUnbalanced.
Malformed(e) ==
    \/ PhraseOpenAtEnd(Strip(e), 1, "out")
    \/ LET toks == Tokenize(Strip(e)).tokens
       IN  toks = <<>> \/ ParensUnbalanced(toks) \/ PrimaryMissing(toks)

\* C5: build_text_query_clause raises QueryParseError and returns no clause
\* for every input with an unterminated phrase, an empty token stream, an
\* unmatched parenthesis, a missing primary or trailing tokens, and returns a
\* clause for every other input.
C5_FailsExactlyOnMalformed ==
    /\ ppc = "raised" => (Malformed(expr) /\ perr # "" /\ clause = <<>>)
    /\ ppc \in {"parsed", "returned"} => ~Malformed(expr)
    /\ ppc = "returned" => (perr = "" /\ clause # <<>>)

\* a run that raised on an opening parenthesis that is never closed
C5_Witness ==
    /\ ppc = "raised"
    /\ perr = "Missing closing parenthesis"
    /\ ~PhraseOpenAtEnd(Strip(expr), 1, "out")

-----------------------------------------------------------------------------
(* A term's value through _emit_cql and back through _tokenize              *)

MaxLit == 4

\* the values of a term: every string over a letter, the double quote and
\* the backslash
LitChars == {"a", DQ, BS}
Literals == SeqsUpTo(LitChars, MaxLit)

InitEscape ==
    /\ ParserIdle
    /\ FetchIdle
    /\ CacheIdle
    /\ SnippetIdle
    /\ NormIdle
    /\ SearchIdle
    /\ term \in {TermNode(v, x) : v \in Literals, x \in BOOLEAN}
    /\ epc = "node"
    /\ fragment = <<>>
    /\ reread = <<>>

\* _emit_cql(term): text <relation> "<escaped value>"
EmitTermStep ==
    /\ epc = "node"
    /\ fragment' = EmitCql(term).str
    /\ epc' = "emitted"
    /\ UNCHANGED <<term, reread, parserVars, searchVars, fetchVars, cacheVars, snippetVars, normVars>>

\* _tokenize(fragment)
RereadStep ==
    /\ epc = "emitted"
    /\ LET tk == Tokenize(fragment)
       IN  IF tk.ok
           THEN reread' = tk.tokens /\ epc' = "reread"
           ELSE reread' = reread /\ epc' = "raised"
    /\ UNCHANGED <<term, fragment, parserVars, searchVars, fetchVars, cacheVars, snippetVars, normVars>>

NextEscape == EmitTermStep \/ RereadStep

SpecEscape == InitEscape /\ [][NextEscape]_vars

RECURSIVE EscapedOnce(_)
\* value with one backslash put before each backslash and each double quote
EscapedOnce(value) ==
    IF value = <<>> THEN <<>>
    ELSE (IF Head(value) \in {BS, DQ} THEN <<BS, Head(value)>> ELSE <<Head(value)>>)
         \o EscapedOnce(Tail(value))

\* C4: for every term value the emitter escapes each backslash and each
\* double quote exactly once, and the tokenizer's phrase rules read the
\* emitted quoted literal back as the original value: the fragment is read
\* as the words text and all/adj followed by one phrase holding the value.
C4_EscapeRoundTrip ==
    /\ epc \in {"emitted", "reread", "raised"} =>
          fragment = TextRelation(term.exact) \o <<DQ>> \o EscapedOnce(term.value) \o <<DQ>>
    /\ epc # "raised"
    /\ epc = "reread" =>
          /\ Len(reread) = 3
          /\ reread[1].type = "WORD" /\ reread[2].type = "WORD"
          /\ reread[3] = Token("PHRASE", term.value)

\* a value holding both a double quote and a backslash, read back
C4_Witness ==
    /\ epc = "reread"
    /\ \E k \in 1..Len(term.value) : term.value[k] = DQ
    /\ \E k \in 1..Len(term.value) : term.value[k] = BS

-----------------------------------------------------------------------------
(* Strings, XML elements and responses as client.py reads them             *)

S_ark_slash == <<"a","r","k",":","/">>
S_ark == <<"a","r","k",":">>

\* whether p occurs in s at index i
OccursAt(s, i, p) == i + Len(p) - 1 <= Len(s) /\ SubSeq(s, i, i + Len(p) - 1) = p

RECURSIVE LastIndexOf(_, _, _)
\* the highest index at or below i at which p occurs in s, 0 when none
LastIndexOf(s, i, p) ==
    IF i < 1 THEN 0 ELSE IF OccursAt(s, i, p) THEN i ELSE LastIndexOf(s, i - 1, p)

\* s.split(p)[-1]
AfterLast(s, p) ==
    IF LastIndexOf(s, Len(s), p) = 0 THEN s
    ELSE SubSeq(s, LastIndexOf(s, Len(s), p) + Len(p), Len(s))

\* What Element.find gives: no element, an element whose text is None, or an
\* element with text.
Absent == [present |-> FALSE, text |-> None]
EmptyElem == [present |-> TRUE, text |-> None]
Elem(text) == [present |-> TRUE, text |-> Some(text)]

\* elem.text is truthy
HasText(e) == e.present /\ e.text.set /\ e.text.v # <<>>

\* response.raise_for_status() raises (lines 119 and 257)
RaisesForStatus(r) == r.status \notin 200..299

-----------------------------------------------------------------------------
(* client.py: _build_cql_query and search                                  *)

Digits == <<"0","1","2","3","4","5","6","7","8","9">>

RECURSIVE NatToChars(_)
NatToChars(n) ==
    IF n < 10 THEN <<Digits[n + 1]>> ELSE NatToChars(n \div 10) \o <<Digits[(n % 10) + 1]>>

\* str(n), and an integer formatted in an f-string
IntToChars(n) == IF n < 0 THEN <<"-">> \o NatToChars(-n) ELSE NatToChars(n)

S_and == <<" ","a","n","d"," ">>
S_or == <<" ","o","r"," ">>
\* dc.title all "
S_title == <<"d","c",".","t","i","t","l","e"," ","a","l","l"," ",DQ>>
\* dc.creator all "
S_creator == <<"d","c",".","c","r","e","a","t","o","r"," ","a","l","l"," ",DQ>>
\* dc.type adj "
S_type == <<"d","c",".","t","y","p","e"," ","a","d","j"," ",DQ>>
\* dc.date >=
S_date_ge == <<"d","c",".","d","a","t","e"," ",">","="," ">>
\* dc.date <=
S_date_le == <<"d","c",".","d","a","t","e"," ","<","="," ">>
\* dc.language adj "
S_language == <<"d","c",".","l","a","n","g","u","a","g","e"," ","a","d","j"," ",DQ>>
\* dc.rights any "domaine public"
S_rights ==
    <<"d","c",".","r","i","g","h","t","s"," ","a","n","y"," ",
      DQ,"d","o","m","a","i","n","e"," ","p","u","b","l","i","c",DQ>>
\* gallica any ""
S_everything == <<"g","a","l","l","i","c","a"," ","a","n","y"," ",DQ,DQ>>
\*  sortby dc.date/sort.ascending
S_sortby ==
    <<" ","s","o","r","t","b","y"," ","d","c",".","d","a","t","e","/",
      "s","o","r","t",".","a","s","c","e","n","d","i","n","g">>

\* whether _build_cql_query builds a text clause (line 335)
HasTextQuery(a) == a.query # <<>> /\ Strip(a.query) # <<>>

\* lines 342-356: one clause per value, a single clause as it is, several
\* joined with " or " inside parentheses
OrBlock(prefix, values) ==
    LET each == [k \in 1..Len(values) |-> prefix \o values[k] \o <<DQ>>]
    IN  IF Len(each) = 1 THEN each[1]
        ELSE <<"(">> \o Join(each, S_or) \o <<")">>

\* The parts that lines 338-370 append after the text clause.
FilterParts(a) ==
    (IF a.title.set /\ a.title.v # <<>> /\ Strip(a.title.v) # <<>>
        THEN << S_title \o Strip(a.title.v) \o <<DQ>> >> ELSE <<>>)
    \o (IF a.creators.set /\ a.creators.v # <<>>
        THEN << OrBlock(S_creator, a.creators.v) >> ELSE <<>>)
    \o (IF a.doc_types.set /\ a.doc_types.v # <<>>
        THEN << OrBlock(S_type, a.doc_types.v) >> ELSE <<>>)
    \o (IF a.date_start.set THEN << S_date_ge \o IntToChars(a.date_start.v) >> ELSE <<>>)
    \o (IF a.date_end.set THEN << S_date_le \o IntToChars(a.date_end.v) >> ELSE <<>>)
    \o (IF a.language.set /\ a.language.v # <<>>
        THEN << S_language \o a.language.v \o <<DQ>> >> ELSE <<>>)
    \o (IF a.public_domain_only THEN << S_rights >> ELSE <<>>)

\* lines 372-379
ComposeCql(ps) ==
    (IF ps = <<>> THEN S_everything ELSE Join(ps, S_and)) \o S_sortby

\* _build_cql_query that recovers from a QueryParseError by leaving the text
\* clause out.
BuildCqlQueryLenient(a) ==
    LET text == IF HasTextQuery(a)
                THEN BuildTextQueryClause(Strip(a.query))
                ELSE [ok |-> FALSE, clause |-> <<>>, err |-> ""]
        ps == (IF text.ok THEN <<text.clause>> ELSE <<>>) \o FilterParts(a)
    IN  [ok |-> TRUE, parts |-> ps, cql |-> ComposeCql(ps), err |-> ""]

\* _build_cql_query: ok = FALSE stands for the QueryParseError that
\* _build_text_clause lets through.
\* lines 372-379, for the parts collected by lines 333-370
CqlFromParts(ps) == [ok |-> TRUE, parts |-> ps, cql |-> ComposeCql(ps), err |-> ""]

\* lines 333-379, given the outcome of _build_text_clause (line 336)
CqlFromText(a, text) ==
    IF ~text.ok THEN [ok |-> FALSE, parts |-> <<>>, cql |-> <<>>, err |-> text.err]
    ELSE CqlFromParts((IF HasTextQuery(a) THEN <<text.clause>> ELSE <<>>) \o FilterParts(a))

BuildCqlQuery(a) ==
    CqlFromText(a, IF HasTextQuery(a)
                THEN BuildTextQueryClause(Strip(a.query))
                ELSE [ok |-> TRUE, clause |-> <<>>, err |-> ""])

Min(x, y) == IF x < y THEN x ELSE y

MAX_RECORDS == 50

\* The params of lines 101-116; start_record is computed before
\* records_per_page is capped.
SearchParams(a, q) ==
    [version |-> "1.2",
     operation |-> "searchRetrieve",
     query |-> q,
     startRecord |-> IntToChars((a.page - 1) * a.records_per_page + 1),
     maximumRecords |-> IntToChars(Min(a.records_per_page, MAX_RECORDS)),
     collapsing |-> "false",
     exactSearch |-> IF a.exact_search THEN "true" ELSE "false"]

\* search up to its await of _rate_limited_get (lines 89-118): the query is
\* built, which may raise, and the request parameters are computed.
SearchBuild ==
    /\ spc = "called"
    /\ \E q \in {BuildCqlQuery(sargs)} :
           IF q.ok
           THEN /\ cqlParts' = q.parts
                /\ cql' = q.cql
                /\ params' = SearchParams(sargs, q.cql)
                /\ spc' = "get"
                /\ serr' = serr
           ELSE /\ spc' = "raised"
                /\ serr' = q.err
                /\ UNCHANGED <<cqlParts, cql, params>>
    /\ UNCHANGED <<sargs, requests, served, result, parserVars, escapeVars, fetchVars,
                   cacheVars, snippetVars, normVars>>

\* _rate_limited_get(SRU_BASE_URL, params=params) issues the GET (line 389).
SearchGet ==
    /\ spc = "get"
    /\ requests' = Append(requests, [url |-> "SRU", params |-> params])
    /\ spc' = "awaiting"
    /\ UNCHANGED <<sargs, cqlParts, cql, params, serr, served, result, parserVars, escapeVars,
                   fetchVars, cacheVars, snippetVars, normVars>>

\* whether p occurs in s
Contains(s, p) == \E i \in 1..Len(s) : OccursAt(s, i, p)

\* elem.text if elem is not None else None
TextOrNone(e) == IF e.present THEN e.text ELSE None

S_Untitled == <<"U","n","t","i","t","l","e","d">>
S_gallica_host == <<"g","a","l","l","i","c","a",".","b","n","f",".","f","r","/">>

\* line 174
TitleOf(e) == IF e.present THEN e.text ELSE Some(S_Untitled)

\* a title that is never None
TitleOrUntitled(e) == IF HasText(e) THEN e.text ELSE Some(S_Untitled)

\* lines 168-170
ArkOf(identifier) ==
    IF identifier.set /\ identifier.v # <<>> /\ Contains(identifier.v, S_ark_slash)
    THEN Some(AfterLast(identifier.v, S_gallica_host))
    ELSE None

RECURSIVE TextsOf(_)
\* lines 177-180
TextsOf(elems) ==
    IF elems = <<>> THEN <<>>
    ELSE IF HasText(Head(elems)) THEN <<Head(elems).text.v>> \o TextsOf(Tail(elems))
    ELSE TextsOf(Tail(elems))

\* _parse_record: None for a record with no oai_dc:dc element, else the
\* document. No step of lines 159-202 raises on an element of a parsed
\* response, so line 204 is not reached.
ParseRecord(record) ==
    IF ~record.dc THEN None
    ELSE Some([identifier |-> ArkOf(TextOrNone(record.identifier)),
               title |-> TitleOf(record.title),
               url |-> IF HasText(record.identifier) THEN record.identifier.text ELSE None,
               creators |-> TextsOf(record.creators),
               date |-> TextOrNone(record.date),
               type |-> TextOrNone(record.type),
               language |-> TextOrNone(record.language)])

RECURSIVE DocumentsUntilSkipped(_)
\* a loop that stops at the first record it cannot parse
DocumentsUntilSkipped(records) ==
    IF records = <<>> \/ ~ParseRecord(Head(records)).set THEN <<>>
    ELSE <<ParseRecord(Head(records)).v>> \o DocumentsUntilSkipped(Tail(records))

RECURSIVE Documents(_)
\* the loop of lines 132-135
Documents(records) ==
    IF records = <<>> THEN <<>>
    ELSE IF ParseRecord(Head(records)).set
         THEN <<ParseRecord(Head(records)).v>> \o Documents(Tail(records))
         ELSE Documents(Tail(records))

\* whether int(text) returns, for the texts the model gives it: digits,
\* with whitespace around them
IsIntText(text) ==
    text.set /\ Strip(text.v) # <<>>
    /\ \A i \in 1..Len(Strip(text.v)) : \E k \in 1..10 : Digits[k] = Strip(text.v)[i]

RECURSIVE DigitsToNat(_)
DigitsToNat(ds) ==
    IF ds = <<>> THEN 0
    ELSE 10 * DigitsToNat(SubSeq(ds, 1, Len(ds) - 1))
         + (CHOOSE k \in 0..9 : Digits[k + 1] = ds[Len(ds)])

\* int(text)
IntOf(text) == DigitsToNat(Strip(text))

NoResult == [page |-> 0, total_results |-> 0, documents |-> <<>>]

\* lines 119-141: what search does with the response, as [raised, error,
\* value]
SearchResult(a, r) ==
    IF r.raised THEN [raised |-> TRUE, error |-> "HTTPError", value |-> NoResult]
    ELSE IF RaisesForStatus(r)
    THEN [raised |-> TRUE, error |-> "HTTPStatusError", value |-> NoResult]
    ELSE IF ~r.xml.wellFormed
    THEN [raised |-> TRUE, error |-> "ParseError", value |-> NoResult]
    ELSE IF r.xml.total.present /\ ~IsIntText(r.xml.total.text)
    THEN [raised |-> TRUE,
          error |-> IF r.xml.total.text.set THEN "ValueError" ELSE "TypeError",
          value |-> NoResult]
    ELSE [raised |-> FALSE, error |-> "",
          value |-> [page |-> a.page,
                     total_results |-> IF r.xml.total.present THEN IntOf(r.xml.total.text.v)
                                       ELSE 0,
                     documents |-> Documents(r.xml.records)]]

\* The request ends (lines 118-141): search returns the page, or an
\* exception of lines 118-126 leaves it (position "failed").
SearchAnswer ==
    /\ spc = "awaiting"
    /\ \E res \in {SearchResult(sargs, served)} :
          /\ spc' = IF res.raised THEN "failed" ELSE "returned"
          /\ serr' = res.error
          /\ result' = res.value
    /\ UNCHANGED <<sargs, cqlParts, cql, params, requests, served, parserVars, escapeVars,
                   fetchVars, cacheVars, snippetVars, normVars>>

NextSearch == SearchBuild \/ SearchGet \/ SearchAnswer

-----------------------------------------------------------------------------
(* The calls of search                                                     *)

MaxQueryLexemes == 3
MaxNonDefault == 2
MaxPage == 2

\*   a   "p q"   OR   NOT   (   )
QueryLexemes == {<<"a">>, <<DQ,"p"," ","q",DQ>>, KwOR, KwNOT, <<"(">>, <<")">>}

\* The text queries: the lexeme sequences, the blank query, a query with an
\* explicit AND and one that ends inside a phrase.
Queries ==
    {Join(ls, <<SP>>) : ls \in SeqsUpTo(QueryLexemes, MaxQueryLexemes)}
    \cup { <<SP>>, <<"a"," ","A","N","D">>, <<DQ,"a">>, InOrAnd, InParenOrAnd }

V_hugo == <<"V","i","c","t","o","r"," ","H","u","g","o">>
V_houdin == <<"H","o","u","d","i","n">>
V_monographie == <<"m","o","n","o","g","r","a","p","h","i","e">>
V_carte == <<"c","a","r","t","e">>
V_fre == <<"f","r","e">>
\*   t" or dc.title all "u
V_quoted ==
    <<"t",DQ," ","o","r"," ","d","c",".","t","i","t","l","e"," ","a","l","l"," ",DQ,"u">>

ArgValues ==
    [query : {<<>>},
     page : 1..MaxPage,
     records_per_page : {50, 60},
     creators : {None, Some(<<>>), Some(<<V_hugo>>), Some(<<V_hugo, V_houdin>>)},
     doc_types : {None, Some(<<V_monographie>>), Some(<<V_monographie, V_carte>>)},
     date_start : {None, Some(1800)},
     date_end : {None, Some(1900)},
     language : {None, Some(V_fre)},
     title : {None, Some(<<SP>>), Some(<<SP, "t">>), Some(V_quoted)},
     public_domain_only : BOOLEAN,
     exact_search : BOOLEAN]

\* the number of arguments other than query that differ from their defaults
NonDefault(a) == Cardinality({f \in DOMAIN a : f # "query" /\ a[f] # NoArgs[f]})

FilterArgs == {a \in ArgValues : NonDefault(a) <= MaxNonDefault}

MaxRecords == 3

\*   https://gallica.bnf.fr/ark:/1/x
V_url ==
    <<"h","t","t","p","s",":","/","/","g","a","l","l","i","c","a",".","b","n","f",".","f","r",
      "/","a","r","k",":","/","1","/","x">>

\* a record with no oai_dc:dc element
R_noDc ==
    [dc |-> FALSE, identifier |-> Absent, title |-> Absent, creators |-> <<>>,
     date |-> Absent, type |-> Absent, language |-> Absent]

\* a record with every element
R_full ==
    [dc |-> TRUE, identifier |-> Elem(V_url), title |-> Elem(<<"T">>),
     creators |-> <<Elem(V_hugo), EmptyElem>>,
     date |-> Elem(<<"1","8","0","0">>), type |-> Elem(V_carte), language |-> Elem(V_fre)]

\* a record whose dc:title element has no text:  <dc:title/>
R_emptyTitle == [R_full EXCEPT !.title = EmptyElem, !.creators = <<>>]

\* a record with no dc:title element
R_noTitle == [R_full EXCEPT !.title = Absent, !.date = EmptyElem]

\* a record with an empty oai_dc:dc element
R_bare == [R_noDc EXCEPT !.dc = TRUE]

Records == {R_noDc, R_full, R_emptyTitle, R_noTitle, R_bare}

SruXml(total, records) == [wellFormed |-> TRUE, total |-> total, records |-> records]
SruNotXml == [wellFormed |-> FALSE, total |-> Absent, records |-> <<>>]

\* What the await of the request gives search.
SearchAnswers ==
    {[raised |-> TRUE, status |-> 0, xml |-> SruNotXml],
     [raised |-> FALSE, status |-> 500, xml |-> SruNotXml],
     [raised |-> FALSE, status |-> 200, xml |-> SruNotXml],
     [raised |-> FALSE, status |-> 200, xml |-> SruXml(EmptyElem, <<R_full>>)],
     [raised |-> FALSE, status |-> 200, xml |-> SruXml(Elem(<<"x">>), <<R_full>>)]}
    \cup {[raised |-> FALSE, status |-> 200, xml |-> SruXml(t, rs)] :
             t \in {Absent, Elem(<<" ","1","2">>)}, rs \in SeqsUpTo(Records, MaxRecords)}

FewAnswers ==
    {[raised |-> TRUE, status |-> 0, xml |-> SruNotXml],
     [raised |-> FALSE, status |-> 200,
      xml |-> SruXml(Elem(<<" ","1","2">>), <<R_full, R_noDc, R_noTitle>>)]}

InitSearch ==
    /\ ParserIdle
    /\ FetchIdle
    /\ CacheIdle
    /\ SnippetIdle
    /\ NormIdle
    /\ EscapeIdle
    /\ sargs \in {[a EXCEPT !.query = q] : a \in FilterArgs, q \in Queries}
    /\ spc = "called"
    /\ cqlParts = <<>>
    /\ cql = <<>>
    /\ params = NoParams
    /\ serr = ""
    /\ requests = <<>>
    /\ served \in FewAnswers
    /\ result = NoResult

SpecSearch == InitSearch /\ [][NextSearch]_vars

\* The calls of search that differ in the request's answer only.
FewArgs == {[NoArgs EXCEPT !.query = <<"a">>], [NoArgs EXCEPT !.query = <<"a">>, !.page = 2]}

InitResults ==
    /\ ParserIdle
    /\ FetchIdle
    /\ CacheIdle
    /\ SnippetIdle
    /\ NormIdle
    /\ EscapeIdle
    /\ sargs \in FewArgs
    /\ spc = "called"
    /\ cqlParts = <<>>
    /\ cql = <<>>
    /\ params = NoParams
    /\ serr = ""
    /\ requests = <<>>
    /\ served \in SearchAnswers
    /\ result = NoResult

SpecResults == InitResults /\ [][NextSearch]_vars

-----------------------------------------------------------------------------
(* Reading a clause of the query language                                   *)
(*                                                                         *)
(* The clause language as the properties below read it: search clauses     *)
(* index relation term, combined with not, and, or, where not binds        *)
(* tighter than and, and and tighter than or. The clause is split into     *)
(* words, quoted literals and parentheses by the rules of _tokenize.       *)

\* a search clause: index relation term
Atom(index, relation, value) ==
    [type |-> "term", value |-> <<index, relation, value>>, exact |-> FALSE,
     children |-> <<>>]

Read(node, idx) == [ok |-> TRUE, node |-> node, idx |-> idx]
Unreadable == [ok |-> FALSE, node |-> NoNode, idx |-> 0]

RECURSIVE ReadOr(_, _)
RECURSIVE ReadOrRest(_, _, _)
RECURSIVE ReadAnd(_, _)
RECURSIVE ReadAndRest(_, _, _)
RECURSIVE ReadNot(_, _)
RECURSIVE ReadPrimary(_, _)

ReadPrimary(toks, i) ==
    IF PeekType(toks, i) = "LPAREN" THEN
        LET r == ReadOr(toks, i + 1)
        IN  IF r.ok /\ PeekType(toks, r.idx) = "RPAREN" THEN Read(r.node, r.idx + 1)
            ELSE Unreadable
    ELSE IF /\ PeekType(toks, i) = "WORD"
            /\ PeekType(toks, i + 1) = "WORD"
            /\ PeekType(toks, i + 2) \in {"WORD", "PHRASE"}
         THEN Read(Atom(toks[i].value, toks[i + 1].value, toks[i + 2].value), i + 3)
    ELSE Unreadable

ReadNot(toks, i) ==
    IF PeekType(toks, i) = "NOT" THEN
        LET r == ReadNot(toks, i + 1)
        IN  IF r.ok THEN Read(NotNode(r.node), r.idx) ELSE Unreadable
    ELSE ReadPrimary(toks, i)

ReadAndRest(toks, i, children) ==
    IF PeekType(toks, i) = "AND" THEN
        LET r == ReadNot(toks, i + 1)
        IN  IF r.ok THEN ReadAndRest(toks, r.idx, Append(children, r.node)) ELSE Unreadable
    ELSE Read(IF Len(children) = 1 THEN children[1] ELSE AndNode(children), i)

ReadAnd(toks, i) ==
    LET r == ReadNot(toks, i)
    IN  IF r.ok THEN ReadAndRest(toks, r.idx, <<r.node>>) ELSE Unreadable

ReadOrRest(toks, i, children) ==
    IF PeekType(toks, i) = "OR" THEN
        LET r == ReadAnd(toks, i + 1)
        IN  IF r.ok THEN ReadOrRest(toks, r.idx, Append(children, r.node)) ELSE Unreadable
    ELSE Read(IF Len(children) = 1 THEN children[1] ELSE OrNode(children), i)

ReadOr(toks, i) ==
    LET r == ReadAnd(toks, i)
    IN  IF r.ok THEN ReadOrRest(toks, r.idx, <<r.node>>) ELSE Unreadable

\* The reading of a whole clause; ok = FALSE when it is not a clause.
ReadClause(text) ==
    LET tk == Tokenize(text)
    IN  IF ~tk.ok THEN Unreadable
        ELSE LET r == ReadOr(tk.tokens, 1)
             IN  IF r.ok /\ r.idx = Len(tk.tokens) + 1 THEN r ELSE Unreadable

RECURSIVE Atoms(_)
Atoms(node) ==
    IF node.type = "term" THEN {node.value}
    ELSE UNION {Atoms(node.children[k]) : k \in 1..Len(node.children)}

RECURSIVE Holds(_, _)
\* whether a document that satisfies exactly the search clauses in sat
\* satisfies node
Holds(node, sat) ==
    CASE node.type = "term" -> node.value \in sat
      [] node.type = "not" -> ~Holds(node.children[1], sat)
      [] node.type = "and" -> \A k \in 1..Len(node.children) : Holds(node.children[k], sat)
      [] node.type = "or" -> \E k \in 1..Len(node.children) : Holds(node.children[k], sat)

SameMeaning(n1, n2) ==
    \A sat \in SUBSET (Atoms(n1) \cup Atoms(n2)) : Holds(n1, sat) = Holds(n2, sat)

-----------------------------------------------------------------------------
(* Properties of search, checked under SpecSearch                           *)

SearchBuilt == spc \in {"get", "awaiting"}

\* search has issued its request
SearchRequested == spc \in {"awaiting", "returned", "failed"}

\* the composed query without the sort directive
CqlBody == SubSeq(cql, 1, Len(cql) - Len(S_sortby))

\* The conjunction of the parts, each read on its own.
PartsAnded ==
    LET each == [k \in 1..Len(cqlParts) |-> ReadClause(cqlParts[k])]
    IN  [ok |-> \A k \in 1..Len(each) : each[k].ok,
         node |-> IF Len(each) = 1 THEN each[1].node
                  ELSE AndNode([k \in 1..Len(each) |-> each[k].node])]

\* C3: in the composed query every structured filter is ANDed onto the
\* whole text clause: read with and binding tighter than or, the query means
\* (text clause) and filter1 and ... and filterN, for every valid text
\* expression.
C3_FiltersAndedOntoWholeTextClause ==
    (SearchBuilt /\ HasTextQuery(sargs)) =>
        /\ ReadClause(CqlBody).ok
        /\ PartsAnded.ok
        /\ SameMeaning(ReadClause(CqlBody).node, PartsAnded.node)

\* What fails in C3 is only a text clause whose top-level operator is OR.
C3_HoldsUnlessTopLevelOr ==
    (SearchBuilt /\ HasTextQuery(sargs)) =>
        /\ ReadClause(CqlBody).ok
        /\ PartsAnded.ok
        /\ \/ SameMeaning(ReadClause(CqlBody).node, PartsAnded.node)
           \/ /\ Len(cqlParts) > 1
              /\ ReadClause(cqlParts[1]).node.type = "or"

\* C6 as stated: whenever the text query is malformed (unterminated phrase,
\* unmatched parenthesis, empty expression, trailing tokens, misplaced
\* operator) search fails with the parse error and issues no HTTP request.
C6_MalformedQueryAlwaysRaises ==
    (Malformed(sargs.query) /\ spc # "called") =>
        (spc = "raised" /\ serr # "" /\ requests = <<>>)

\* C6 amended: whenever the text query is not blank and is malformed, search
\* fails with the parse error and issues no HTTP request; a blank query
\* (empty or only whitespace) is not an error: search leaves the text clause
\* out and goes on to its request.
C6_NonBlankMalformedQueryRaises ==
    /\ (Malformed(sargs.query) /\ Strip(sargs.query) # <<>> /\ spc # "called") =>
          (spc = "raised" /\ serr # "" /\ requests = <<>> /\ cql = <<>>)
    /\ (Strip(sargs.query) = <<>> /\ spc # "called") =>
          /\ SearchBuilt \/ SearchRequested
          /\ SearchBuilt => serr = ""
          /\ cqlParts = FilterParts(sargs)
    /\ SearchRequested =>
          (Len(requests) = 1 /\ (Strip(sargs.query) = <<>> \/ ~Malformed(sargs.query)))

C6_Witness ==
    /\ spc = "raised"
    /\ serr = "Unexpected token"
    /\ requests = <<>>


-----------------------------------------------------------------------------
(* client.py: _rate_limited_get and _wait_for_request_slot                  *)
(*                                                                         *)
(* The tasks are coroutines on one event loop: what a task does between    *)
(* two suspensions is one step, and the clock does not advance inside a    *)
(* step. A task suspends where it waits for the semaphore, for the lock,   *)
(* in asyncio.sleep and in self.client.get. Waiters are granted the        *)
(* semaphore and the lock in any order.                                    *)

MaxInterval == 2
MaxConcurrent == 2
MaxTime == 6
MaxRequests == 3

Max(x, y) == IF x > y THEN x ELSE y

\* the tasks suspended at position p
Waiting(p) == {u \in Tasks : lpc[u] = p}

\* a semaphore that admits every caller
CanAcquireAlways(v) == TRUE

\* asyncio.Semaphore.acquire takes the semaphore only when its value is
\* positive
CanAcquire(v) == v > 0

\* a pacing rule that never waits
WaitTimeNone(interval, time, last) == 0

\* line 400
WaitTime(interval, time, last) == interval - (time - last)

\* The call of self.client.get (line 389) by task t, with the semaphore
\* value sv, the lock holder lh and the last request time last that the
\* step leaves behind.
ClientGet(t, sv, lh, last) ==
    /\ semValue' = sv
    /\ lockHolder' = lh
    /\ lastRequestTime' = last
    /\ lpc' = [lpc EXCEPT ![t] = "get"]
    /\ started' = Append(started, [task |-> t, time |-> now])
    /\ wakeAt' = wakeAt

\* lines 398-404 once the lock is acquired: either the task goes to sleep
\* holding the lock, or it records the time, releases the lock and returns
\* to _rate_limited_get, which calls self.client.get.
PaceUnderLock(t, sv) ==
    IF WaitTime(minInterval, now, lastRequestTime) > 0
    THEN /\ lpc' = [lpc EXCEPT ![t] = "sleep"]
         /\ wakeAt' = [wakeAt EXCEPT ![t] = now + WaitTime(minInterval, now, lastRequestTime)]
         /\ lockHolder' = t
         /\ semValue' = sv
         /\ UNCHANGED <<lastRequestTime, started>>
    ELSE ClientGet(t, sv, 0, now)

\* _wait_for_request_slot from its first line (lines 392-397)
WaitForRequestSlot(t, sv) ==
    IF minInterval <= 0
    THEN ClientGet(t, sv, lockHolder, lastRequestTime)
    ELSE \/ /\ lockHolder = 0
            /\ PaceUnderLock(t, sv)
         \/ /\ lockHolder # 0 \/ Waiting("lock") # {}
            /\ lpc' = [lpc EXCEPT ![t] = "lock"]
            /\ semValue' = sv
            /\ UNCHANGED <<lockHolder, lastRequestTime, wakeAt, started>>

\* _rate_limited_get from its first line (lines 385-388), the semaphore
\* holding sv
RateLimitedGet(t, sv) ==
    \/ /\ CanAcquire(sv)
       /\ WaitForRequestSlot(t, sv - 1)
    \/ /\ ~CanAcquire(sv) \/ Waiting("sem") \ {t} # {}
       /\ lpc' = [lpc EXCEPT ![t] = "sem"]
       /\ semValue' = sv
       /\ UNCHANGED <<lockHolder, lastRequestTime, wakeAt, started>>

\* the calls made so far that have not run to completion or are running
CallsMade == Len(started) + Cardinality(Waiting("sem") \cup Waiting("lock") \cup Waiting("sleep"))

\* a task calls _rate_limited_get
Call(t) ==
    /\ lpc[t] = "idle"
    /\ CallsMade < MaxRequests
    /\ RateLimitedGet(t, semValue)
    /\ outcome' = [outcome EXCEPT ![t] = "none"]
    /\ UNCHANGED <<now, minInterval, maxConcurrent, parserVars, escapeVars, searchVars, cacheVars, snippetVars, normVars>>

\* a task waiting at line 387 is given the semaphore
SemaphoreGranted(t) ==
    /\ lpc[t] = "sem"
    /\ CanAcquire(semValue)
    /\ WaitForRequestSlot(t, semValue - 1)
    /\ UNCHANGED <<now, minInterval, maxConcurrent, outcome, parserVars, escapeVars, searchVars, cacheVars, snippetVars, normVars>>

\* a task waiting at line 397 is given the lock
LockGranted(t) ==
    /\ lpc[t] = "lock"
    /\ lockHolder = 0
    /\ PaceUnderLock(t, semValue)
    /\ UNCHANGED <<now, minInterval, maxConcurrent, outcome, parserVars, escapeVars, searchVars, cacheVars, snippetVars, normVars>>

\* asyncio.sleep(wait_time) returns (lines 402-404): no sooner than asked
SleepDone(t) ==
    /\ lpc[t] = "sleep"
    /\ now >= wakeAt[t]
    /\ ClientGet(t, semValue, 0, now)
    /\ UNCHANGED <<now, minInterval, maxConcurrent, outcome, parserVars, escapeVars, searchVars, cacheVars, snippetVars, normVars>>

\* a fetcher that asks again when the request raised
GetEndsRetrying(t) ==
    /\ lpc[t] = "get"
    /\ \/ /\ outcome' = [outcome EXCEPT ![t] = "response"]
          /\ semValue' = semValue + 1
          /\ lpc' = [lpc EXCEPT ![t] = "idle"]
          /\ UNCHANGED started
       \/ /\ outcome' = [outcome EXCEPT ![t] = "HTTPError"]
          /\ started' = Append(started, [task |-> t, time |-> now])
          /\ UNCHANGED <<semValue, lpc>>
    /\ UNCHANGED <<now, minInterval, maxConcurrent, lockHolder, lastRequestTime, wakeAt,
                   parserVars, escapeVars, searchVars, cacheVars, snippetVars, normVars>>

\* a fetcher that gives its slot back only when the request returned
GetEndsKeepingSlot(t) ==
    /\ lpc[t] = "get"
    /\ \/ /\ outcome' = [outcome EXCEPT ![t] = "response"]
          /\ semValue' = semValue + 1
       \/ /\ outcome' = [outcome EXCEPT ![t] = "HTTPError"]
          /\ semValue' = semValue
    /\ lpc' = [lpc EXCEPT ![t] = "idle"]
    /\ UNCHANGED <<now, minInterval, maxConcurrent, lockHolder, lastRequestTime, wakeAt,
                   started, parserVars, escapeVars, searchVars, cacheVars, snippetVars, normVars>>

\* self.client.get returns a response or raises httpx.HTTPError; either way
\* the task leaves the async with block of line 387, which releases the
\* semaphore
GetEnds(t) ==
    /\ lpc[t] = "get"
    /\ \E o \in {"response", "HTTPError"} : outcome' = [outcome EXCEPT ![t] = o]
    /\ semValue' = semValue + 1
    /\ lpc' = [lpc EXCEPT ![t] = "idle"]
    /\ UNCHANGED <<now, minInterval, maxConcurrent, lockHolder, lastRequestTime, wakeAt,
                   started, parserVars, escapeVars, searchVars, cacheVars, snippetVars, normVars>>

\* time passes: the clock is followed up to MaxTime, and beyond it for as
\* long as a task in asyncio.sleep has its wake-up time ahead
Tick ==
    /\ now < MaxTime \/ \E t \in Tasks : lpc[t] = "sleep" /\ now < wakeAt[t]
    /\ now' = now + 1
    /\ UNCHANGED <<minInterval, maxConcurrent, semValue, lockHolder, lastRequestTime, lpc,
                   wakeAt, outcome, started, parserVars, escapeVars, searchVars, cacheVars, snippetVars, normVars>>

\* GallicaClient(max_concurrent_requests, min_request_interval) (lines
\* 29-48), at some time of the loop's clock
InitFetch ==
    /\ ParserIdle
    /\ EscapeIdle
    /\ SearchIdle
    /\ CacheIdle
    /\ SnippetIdle
    /\ NormIdle
    /\ now \in 0..1
    /\ \E arg \in (-1)..MaxInterval : minInterval = Max(arg, 0)
    /\ maxConcurrent \in 1..MaxConcurrent
    /\ semValue = maxConcurrent
    /\ lockHolder = 0
    /\ lastRequestTime = 0
    /\ lpc = [t \in Tasks |-> "idle"]
    /\ wakeAt = [t \in Tasks |-> 0]
    /\ outcome = [t \in Tasks |-> "none"]
    /\ started = <<>>

NextFetch ==
    \/ \E t \in Tasks : Call(t)
    \/ \E t \in Tasks : SemaphoreGranted(t)
    \/ \E t \in Tasks : LockGranted(t)
    \/ \E t \in Tasks : SleepDone(t)
    \/ \E t \in Tasks : GetEnds(t)
    \/ Tick

SpecFetch == InitFetch /\ [][NextFetch]_vars

\* C7: with a minimum interval I > 0, whatever the interleaving of the
\* callers of _rate_limited_get, any two consecutive calls of self.client.get
\* start at least I apart, so that the N calls started so far span at least
\* (N - 1) * I on the loop's clock.
C7_RequestsPaced ==
    minInterval > 0 =>
        /\ \A k \in 1..(Len(started) - 1) :
              started[k + 1].time - started[k].time >= minInterval
        /\ started # <<>> => now - started[1].time >= (Len(started) - 1) * minInterval

\* the largest interval, two admission slots, every request started and two
\* of them outstanding at once
C7_Witness ==
    /\ minInterval = MaxInterval
    /\ maxConcurrent = MaxConcurrent
    /\ Len(started) = MaxRequests
    /\ Cardinality(Waiting("get")) = MaxConcurrent

\* the tasks inside the async with block of line 387
Holders == Waiting("lock") \cup Waiting("sleep") \cup Waiting("get")

\* C8: at most max_concurrent_requests requests are outstanding, and every
\* task that waits for the pacing lock, sleeps for its pacing wait, updates
\* the last request time or has a request outstanding holds one of the
\* max_concurrent_requests admission slots: the tasks at those positions are
\* exactly as many as the semaphore has given out, and it never gives out
\* more than it has.
C8_AdmissionBound ==
    /\ Cardinality(Waiting("get")) <= maxConcurrent
    /\ semValue >= 0
    /\ Cardinality(Holders) = maxConcurrent - semValue

\* one request outstanding, one task in its pacing wait, and a third task
\* kept waiting for a slot
C8_Witness ==
    /\ Waiting("get") # {}
    /\ Waiting("sleep") # {}
    /\ Waiting("sem") # {}
    /\ semValue = 0

-----------------------------------------------------------------------------
(* client.py: identifiers, URLs and _html_to_plain_text                     *)
(*                                                                         *)
(* A character outside ASCII is written as its code point, "U+226A".       *)

NL == "\n"
TAB == "\t"
CR == "\r"
FF == "\f"

RECURSIVE ReplaceStrFrom(_, _, _, _)
ReplaceStrFrom(s, i, old, new) ==
    IF i > Len(s) THEN <<>>
    ELSE IF OccursAt(s, i, old) THEN new \o ReplaceStrFrom(s, i + Len(old), old, new)
    ELSE <<s[i]>> \o ReplaceStrFrom(s, i + 1, old, new)

\* str.replace(old, new) for a non-empty old
ReplaceStr(s, old, new) == ReplaceStrFrom(s, 1, old, new)

RECURSIVE LStripChar(_, _)
\* str.lstrip(ch)
LStripChar(s, ch) == IF s # <<>> /\ Head(s) = ch THEN LStripChar(Tail(s), ch) ELSE s

RECURSIVE RStripChar(_, _)
\* str.rstrip(ch)
RStripChar(s, ch) ==
    IF s # <<>> /\ s[Len(s)] = ch THEN RStripChar(SubSeq(s, 1, Len(s) - 1), ch) ELSE s

\* line 215
CleanId(identifier) == ReplaceStr(ReplaceStr(identifier, S_ark_slash, <<>>), <<"/">>, <<"_">>)

\* _normalize_identifier
NormalizeIdentifier(identifier) ==
    IF OccursAt(Strip(identifier), 1, S_ark_slash) THEN Strip(identifier)
    ELSE IF OccursAt(Strip(identifier), 1, S_ark)
         THEN S_ark_slash \o LStripChar(SubSeq(Strip(identifier), 5, Len(Strip(identifier))), "/")
         ELSE S_ark_slash \o LStripChar(Strip(identifier), "/")

TEXT_BASE_URL ==
    <<"h","t","t","p","s",":","/","/","g","a","l","l","i","c","a",".","b","n","f",".","f","r">>
S_dot_texteBrut == <<".","t","e","x","t","e","B","r","u","t">>
S_slash_texteBrut == <<"/","t","e","x","t","e","B","r","u","t">>

\* the two URLs in the other order
BuildTexteBrutUrlsReversed(ark) ==
    << TEXT_BASE_URL \o <<"/">> \o RStripChar(LStripChar(ark, "/"), "/") \o S_slash_texteBrut,
       TEXT_BASE_URL \o <<"/">> \o RStripChar(LStripChar(ark, "/"), "/") \o S_dot_texteBrut >>

\* _build_texte_brut_urls
BuildTexteBrutUrls(ark) ==
    << TEXT_BASE_URL \o <<"/">> \o RStripChar(LStripChar(ark, "/"), "/") \o S_dot_texteBrut,
       TEXT_BASE_URL \o <<"/">> \o RStripChar(LStripChar(ark, "/"), "/") \o S_slash_texteBrut >>

\* str.lower() on one character
LowerChar(ch) ==
    IF \E k \in 1..26 : UpperLetters[k] = ch
    THEN LowerLetters[CHOOSE k \in 1..26 : UpperLetters[k] = ch]
    ELSE ch

Lower(s) == [k \in 1..Len(s) |-> LowerChar(s[k])]

\* \w on the characters the model uses
IsWordChar(ch) ==
    \/ \E k \in 1..26 : LowerLetters[k] = ch \/ UpperLetters[k] = ch
    \/ \E k \in 1..10 : Digits[k] = ch
    \/ ch = "_"

\* \s on the characters the model uses
ReSpace == {" ", TAB, NL, CR, FF}

\* the index after the longest run of characters of C that starts at i
RunEnd(s, i, C) ==
    IF \A j \in i..Len(s) : s[j] \in C THEN Max(Len(s) + 1, i)
    ELSE CHOOSE j \in i..Len(s) : s[j] \notin C /\ \A k \in i..(j - 1) : s[k] \in C

\* the index of the first ch at or after i, 0 when there is none
IndexFrom(s, i, ch) ==
    IF \A j \in i..Len(s) : s[j] # ch THEN 0
    ELSE CHOOSE j \in i..Len(s) : s[j] = ch /\ \A k \in i..(j - 1) : s[k] # ch

\* the tag names of line 455
BlockTags ==
    {<<"p">>, <<"d","i","v">>, <<"s","e","c","t","i","o","n">>, <<"a","r","t","i","c","l","e">>,
     <<"l","i">>, <<"h","1">>, <<"h","2">>, <<"h","3">>, <<"h","4">>, <<"h","5">>, <<"h","6">>,
     <<"t","r">>, <<"t","d">>, <<"t","a","b","l","e">>}

\* the end of a br tag whose name ends before k: /> or >
BrClose(s, k) ==
    IF OccursAt(s, k, <<"/", ">">>) THEN k + 2
    ELSE IF OccursAt(s, k, <<">">>) THEN k + 1
    ELSE 0

BrName(s, j) ==
    IF OccursAt(Lower(s), j, <<"b","r">>) THEN BrClose(s, RunEnd(s, j + 2, ReSpace)) ELSE 0

\* Where a match of (?i)<\s*br\s*/?> that starts at i ends (the index after
\* it), 0 when there is none.
MatchBr(s, i) == IF s[i] # "<" THEN 0 ELSE BrName(s, RunEnd(s, i + 1, ReSpace))

\* the index after the first > at or after j, 0 when there is none
TagClose(s, j) == IF IndexFrom(s, j, ">") = 0 THEN 0 ELSE IndexFrom(s, j, ">") + 1

HrName(s, j) ==
    IF OccursAt(Lower(s), j, <<"h","r">>) /\ ~(j + 2 <= Len(s) /\ IsWordChar(s[j + 2]))
    THEN TagClose(s, j + 2) ELSE 0

\* (?i)<\s*hr\b[^>]*>
MatchHr(s, i) == IF s[i] # "<" THEN 0 ELSE HrName(s, RunEnd(s, i + 1, ReSpace))

\* the start of the tag name in a block tag that starts at i: after the
\* optional / and the spaces
NameStart(s, i) ==
    RunEnd(s, IF OccursAt(s, i + 1, <<"/">>) THEN i + 2 ELSE i + 1, ReSpace)

\* the index after the longest run of word characters that starts at j
WordRunEnd(s, j) ==
    IF \A k \in j..Len(s) : IsWordChar(s[k]) THEN Max(Len(s) + 1, j)
    ELSE CHOOSE k \in j..Len(s) : ~IsWordChar(s[k]) /\ \A m \in j..(k - 1) : IsWordChar(s[m])

BlockName(s, j) ==
    IF Lower(SubSeq(s, j, WordRunEnd(s, j) - 1)) \in BlockTags
    THEN TagClose(s, WordRunEnd(s, j)) ELSE 0

\* (?i)</?\s*(p|div|section|article|li|h[1-6]|tr|td|table)\b[^>]*> : the
\* word that follows the spaces is one of the names
MatchBlock(s, i) == IF s[i] # "<" THEN 0 ELSE BlockName(s, NameStart(s, i))

\* <[^>]+>
MatchTag(s, i) ==
    IF s[i] # "<" \/ i + 1 > Len(s) \/ OccursAt(s, i + 1, <<">">>) THEN 0
    ELSE TagClose(s, i + 2)

\* [\t\x0b\f]+
MatchTabs(s, i) == IF s[i] \in {TAB, FF} THEN RunEnd(s, i, {TAB, FF}) ELSE 0

\* \n{3,}
MatchNewlines(s, i) == IF RunEnd(s, i, {NL}) - i >= 3 THEN RunEnd(s, i, {NL}) ELSE 0

\* " +\n"
MatchSpacesNewline(s, i) ==
    IF s[i] = " " /\ OccursAt(s, RunEnd(s, i, {" "}), <<NL>>)
    THEN RunEnd(s, i, {" "}) + 1 ELSE 0

\* "\n +"
MatchNewlineSpaces(s, i) ==
    IF s[i] = NL /\ OccursAt(s, i + 1, <<" ">>) THEN RunEnd(s, i + 1, {" "}) ELSE 0

\* " {2,}"
MatchSpaces(s, i) == IF RunEnd(s, i, {" "}) - i >= 2 THEN RunEnd(s, i, {" "}) ELSE 0

ReMatch(pat, s, i) ==
    CASE pat = "br" -> MatchBr(s, i)
      [] pat = "hr" -> MatchHr(s, i)
      [] pat = "block" -> MatchBlock(s, i)
      [] pat = "tag" -> MatchTag(s, i)
      [] pat = "tabs" -> MatchTabs(s, i)
      [] pat = "newlines" -> MatchNewlines(s, i)
      [] pat = "spaces-newline" -> MatchSpacesNewline(s, i)
      [] pat = "newline-spaces" -> MatchNewlineSpaces(s, i)
      [] pat = "spaces" -> MatchSpaces(s, i)

RECURSIVE ReSubFrom(_, _, _, _)
ReSubFrom(pat, repl, s, i) ==
    IF i > Len(s) THEN <<>>
    ELSE IF ReMatch(pat, s, i) # 0 THEN repl \o ReSubFrom(pat, repl, s, ReMatch(pat, s, i))
    ELSE <<s[i]>> \o ReSubFrom(pat, repl, s, i + 1)

\* re.sub(pat, repl, s) for the patterns of _html_to_plain_text, none of
\* which matches the empty string
ReSub(pat, repl, s) == ReSubFrom(pat, repl, s, 1)

\* The entries of html.entities.html5 that can be spelled with the letters
\* x, p, b, r, l, t, the characters of the pages below.
Html5 ==
    (<<"l","t",";">> :> <<"<">>) @@ (<<"l","t">> :> <<"<">>) @@
    (<<"l","l",";">> :> <<"U+226A">>) @@ (<<"p","r",";">> :> <<"U+227A">>) @@
    (<<"r","x",";">> :> <<"U+211E">>)

\* the lengths x, from len(s) - 1 down to 2, for which s[:x] is an entity
EntityPrefixes(ref) == {x \in 2..(Len(ref) - 1) : SubSeq(ref, 1, x) \in DOMAIN Html5}

\* html.unescape's replace_charref for a named reference
ReplaceCharref(ref) ==
    IF ref \in DOMAIN Html5 THEN Html5[ref]
    ELSE IF EntityPrefixes(ref) # {}
         THEN Html5[SubSeq(ref, 1, CHOOSE x \in EntityPrefixes(ref) : \A y \in EntityPrefixes(ref) : y <= x)]
              \o SubSeq(ref, 1 + (CHOOSE x \in EntityPrefixes(ref) : \A y \in EntityPrefixes(ref) : y <= x), Len(ref))
    ELSE <<"&">> \o ref

\* [^\t\n\f <&#;]
IsNameChar(ch) == ch \notin {TAB, NL, FF, " ", "<", "&", "#", ";"}

MaxNameLen == 32

\* the index after the longest run of at most MaxNameLen name characters
\* that starts at j
NameRunEnd(s, j) ==
    IF \A k \in j..Min(Len(s), j + MaxNameLen - 1) : IsNameChar(s[k])
    THEN Max(Min(Len(s), j + MaxNameLen - 1) + 1, j)
    ELSE CHOOSE k \in j..Len(s) : ~IsNameChar(s[k]) /\ \A m \in j..(k - 1) : IsNameChar(s[m])

\* the index after a named reference whose name ends before e: the optional ;
RefEnd(s, e) == IF OccursAt(s, e, <<";">>) THEN e + 1 ELSE e

RECURSIVE UnescapeFrom(_, _)
UnescapeFrom(s, i) ==
    IF i > Len(s) THEN <<>>
    ELSE IF s[i] = "&" /\ NameRunEnd(s, i + 1) > i + 1
         THEN ReplaceCharref(SubSeq(s, i + 1, RefEnd(s, NameRunEnd(s, i + 1)) - 1))
              \o UnescapeFrom(s, RefEnd(s, NameRunEnd(s, i + 1)))
    ELSE <<s[i]>> \o UnescapeFrom(s, i + 1)

\* html.unescape on text without numeric references (no # follows an &)
Unescape(s) == UnescapeFrom(s, 1)

S_hr_marker == <<"_","_","_","G","A","L","L","I","C","A","_","H","R","_","_","_">>
S_hr == <<"<","h","r",">">>

\* lines 451-463: the tags
StripTags(html) ==
    ReplaceStr(
        ReSub("tag", <<>>,
            ReSub("block", <<NL>>,
                ReSub("hr", <<NL>> \o S_hr_marker \o <<NL>>,
                    ReSub("br", <<NL>>, html)))),
        S_hr_marker, S_hr)

\* lines 466-470: the white space
CollapseWhitespace(text) ==
    ReSub("spaces", <<" ">>,
        ReSub("newline-spaces", <<NL>>,
            ReSub("spaces-newline", <<NL>>,
                ReSub("newlines", <<NL, NL>>,
                    ReSub("tabs", <<" ">>, text)))))

\* _html_to_plain_text
HtmlToPlainText(html) ==
    Strip(CollapseWhitespace(ReplaceStr(Unescape(StripTags(html)), <<CR>>, <<>>)))

-----------------------------------------------------------------------------
(* client.py: download_text and _retrieve_texte_brut                        *)

MaxDownloaders == 2
MaxDownloads == 2

Downloaders == 1..MaxDownloaders

\*   ark:/1/x   1/x   ark:1/x   ark:/1/y
Identifiers ==
    {<<"a","r","k",":","/","1","/","x">>, <<"1","/","x">>, <<"a","r","k",":","1","/","x">>,
     <<"a","r","k",":","/","1","/","y">>}

CacheKeys == {CleanId(id) : id \in Identifiers}

NoFile == [exists |-> FALSE, text |-> <<>>]
File(text) == [exists |-> TRUE, text |-> text]

S_cache_dir == <<"c","a","c","h","e","/","g","a","l","l","i","c","a","/">>
S_txt == <<".","t","x","t">>

\* str(cache_file.resolve()) for cache_dir / f"{clean_id}.txt" (lines 217, 219)
CachePath(key) == S_cache_dir \o key \o S_txt

\* a cache that never finds its file
CacheMissAlways(f) == FALSE

\* cache_file.exists() (line 218)
CacheFileExists(f) == f.exists

\* a write that leaves no file behind
WriteNothing(f, text) == f

\* a write that stops before the last character
WritePartial(f, text) == File(SubSeq(text, 1, Len(text) - 1))

\* cache_file.write_text(plain_text) (line 225)
WriteText(f, text) == File(text)

\*   <p>x</p>   x<br>x   a blank page
Page_p == <<"<","p",">","x","<","/","p",">">>
Page_br == <<"x","<","b","r",">","x">>
Page_blank == <<" ",NL>>

\* What the await of self.client.get gives: a response with its status code
\* and text, or an httpx.HTTPError.
Responses ==
    {[raised |-> FALSE, status |-> 200, text |-> Page_p],
     [raised |-> FALSE, status |-> 200, text |-> Page_br],
     [raised |-> FALSE, status |-> 200, text |-> Page_blank],
     [raised |-> FALSE, status |-> 404, text |-> Page_p],
     [raised |-> TRUE, status |-> 0, text |-> <<>>]}

\* line 429
Accepted(r) == ~r.raised /\ r.status = 200 /\ Strip(r.text) # <<>>

\* the entry that lines 426 and 432 append to errors
ErrorEntry(url, r) ==
    [url |-> url, reason |-> IF r.raised THEN "HTTPError" ELSE "HTTP status", status |-> r.status]

\* asked lists the URLs the call has passed to _rate_limited_get and answers
\* what came back for each, in order
NoCall ==
    [pc |-> "idle", identifier |-> <<>>, key |-> <<>>, urls |-> <<>>, idx |-> 0,
     errors |-> <<>>, hit |-> FALSE, overlap |-> FALSE, calledAfter |-> 0,
     asked |-> <<>>, answers |-> <<>>]

\* the tasks whose call is fetching the file of key
Fetching(key) == {u \in Downloaders : dl[u].pc = "fetching" /\ dl[u].key = key}

\* the record of a call that has ended; page is the text that
\* _retrieve_texte_brut returned to it, content is the text of the file at
\* the returned path when the call returns
Ended(call, status, retrievals, rewrote, page, content) ==
    [identifier |-> call.identifier, key |-> call.key, hit |-> call.hit,
     overlap |-> call.overlap, calledAfter |-> call.calledAfter,
     status |-> status, retrievals |-> retrievals, requests |-> call.idx,
     errors |-> call.errors, wrote |-> rewrote,
     asked |-> call.asked, answers |-> call.answers,
     path |-> IF status = "returned" THEN CachePath(call.key) ELSE <<>>,
     page |-> page, content |-> content]

CallsBegun == Len(done) + Cardinality({u \in Downloaders : dl[u].pc # "idle"})

\* download_text(identifier) finds its cache file and returns (lines 215-219)
DownloadHit(t, id) ==
    /\ dl[t].pc = "idle"
    /\ CallsBegun < MaxDownloads
    /\ CacheFileExists(files[CleanId(id)])
    /\ done' = Append(done,
          Ended([NoCall EXCEPT !.identifier = id, !.key = CleanId(id),
                               !.hit = files[CleanId(id)].exists,
                               !.overlap = Fetching(CleanId(id)) # {},
                               !.calledAfter = Len(done)],
                "returned", 0, FALSE, <<>>, files[CleanId(id)].text))
    /\ dl' = [u \in Downloaders |->
                IF u \in Fetching(CleanId(id)) THEN [dl[u] EXCEPT !.overlap = TRUE] ELSE dl[u]]
    /\ UNCHANGED <<files, writes, fetchVars, parserVars, escapeVars, searchVars, snippetVars, normVars>>

\* download_text(identifier) finds no cache file and goes on to the first
\* URL of _retrieve_texte_brut, up to where _rate_limited_get suspends
\* (lines 215-424)
DownloadMiss(t, id) ==
    /\ dl[t].pc = "idle"
    /\ CallsBegun < MaxDownloads
    /\ ~CacheFileExists(files[CleanId(id)])
    /\ dl' = [u \in Downloaders |->
                IF u = t
                THEN [pc |-> "fetching", identifier |-> id, key |-> CleanId(id),
                      urls |-> BuildTexteBrutUrls(NormalizeIdentifier(id)), idx |-> 1,
                      errors |-> <<>>, hit |-> files[CleanId(id)].exists,
                      overlap |-> Fetching(CleanId(id)) # {}, calledAfter |-> Len(done),
                      asked |-> <<BuildTexteBrutUrls(NormalizeIdentifier(id))[1]>>,
                      answers |-> <<>>]
                ELSE IF u \in Fetching(CleanId(id)) THEN [dl[u] EXCEPT !.overlap = TRUE]
                ELSE dl[u]]
    /\ RateLimitedGet(t, semValue)
    /\ UNCHANGED <<files, writes, done, now, minInterval, maxConcurrent, outcome,
                   parserVars, escapeVars, searchVars, snippetVars, normVars>>

\* The request of task t ends with a response that line 429 accepts:
\* _rate_limited_get releases the semaphore, _retrieve_texte_brut returns the
\* text, download_text normalizes it, writes the file and returns its path
\* (lines 222-226).
DownloadStored(t, r) ==
    /\ dl[t].pc = "fetching"
    /\ lpc[t] = "get"
    /\ Accepted(r)
    /\ files' = [files EXCEPT ![dl[t].key] = WriteText(@, HtmlToPlainText(r.text))]
    /\ writes' = [writes EXCEPT ![dl[t].key] = @ + 1]
    /\ done' = Append(done, Ended([dl[t] EXCEPT !.answers = Append(@, r)],
                             "returned", 1, TRUE, r.text, files'[dl[t].key].text))
    /\ dl' = [dl EXCEPT ![t] = NoCall]
    /\ semValue' = semValue + 1
    /\ lpc' = [lpc EXCEPT ![t] = "idle"]
    /\ outcome' = [outcome EXCEPT ![t] = "response"]
    /\ UNCHANGED <<now, minInterval, maxConcurrent, lockHolder, lastRequestTime, wakeAt,
                   started, parserVars, escapeVars, searchVars, snippetVars, normVars>>

\* The request ends with an error or a response that line 429 refuses, and
\* another URL is left: the loop of lines 421-432 goes on to it, up to where
\* _rate_limited_get suspends.
DownloadNextUrl(t, r) ==
    /\ dl[t].pc = "fetching"
    /\ lpc[t] = "get"
    /\ ~Accepted(r)
    /\ dl[t].idx < Len(dl[t].urls)
    /\ dl' = [dl EXCEPT ![t].idx = @ + 1,
                        ![t].errors = Append(@, ErrorEntry(dl[t].urls[dl[t].idx], r)),
                        ![t].asked = Append(@, dl[t].urls[dl[t].idx + 1]),
                        ![t].answers = Append(@, r)]
    /\ RateLimitedGet(t, semValue + 1)
    /\ outcome' = [outcome EXCEPT ![t] = IF r.raised THEN "HTTPError" ELSE "response"]
    /\ UNCHANGED <<files, writes, done, now, minInterval, maxConcurrent,
                   parserVars, escapeVars, searchVars, snippetVars, normVars>>

\* The request for the last URL ends with an error or a refused response:
\* _retrieve_texte_brut raises RuntimeError (lines 434-437), which leaves
\* download_text before line 225.
DownloadFailed(t, r) ==
    /\ dl[t].pc = "fetching"
    /\ lpc[t] = "get"
    /\ ~Accepted(r)
    /\ dl[t].idx = Len(dl[t].urls)
    /\ done' = Append(done,
          Ended([dl[t] EXCEPT !.errors = Append(@, ErrorEntry(dl[t].urls[dl[t].idx], r)),
                              !.answers = Append(@, r)],
                "raised", 1, FALSE, <<>>, <<>>))
    /\ dl' = [dl EXCEPT ![t] = NoCall]
    /\ semValue' = semValue + 1
    /\ lpc' = [lpc EXCEPT ![t] = "idle"]
    /\ outcome' = [outcome EXCEPT ![t] = IF r.raised THEN "HTTPError" ELSE "response"]
    /\ UNCHANGED <<files, writes, now, minInterval, maxConcurrent, lockHolder,
                   lastRequestTime, wakeAt, started, parserVars, escapeVars, searchVars, snippetVars, normVars>>

\* A client with an empty cache directory, and the tasks that call
\* download_text. The client is constructed
\* with min_request_interval = 0, so that _wait_for_request_slot returns at
\* line 395 and no step of download_text depends on the clock; requests are
\* still admitted by the semaphore.
InitCache ==
    /\ ParserIdle
    /\ EscapeIdle
    /\ SearchIdle
    /\ SnippetIdle
    /\ NormIdle
    /\ now = 0
    /\ minInterval = 0
    /\ maxConcurrent \in 1..MaxConcurrent
    /\ semValue = maxConcurrent
    /\ lockHolder = 0
    /\ lastRequestTime = 0
    /\ lpc = [t \in Tasks |-> IF t \in Downloaders THEN "idle" ELSE "off"]
    /\ wakeAt = [t \in Tasks |-> 0]
    /\ outcome = [t \in Tasks |-> "none"]
    /\ started = <<>>
    /\ files = [k \in CacheKeys |-> NoFile]
    /\ writes = [k \in CacheKeys |-> 0]
    /\ dl = [t \in Downloaders |-> NoCall]
    /\ done = <<>>

NextCache ==
    \/ \E t \in Downloaders, id \in Identifiers : DownloadHit(t, id)
    \/ \E t \in Downloaders, id \in Identifiers : DownloadMiss(t, id)
    \/ \E t \in Downloaders, r \in Responses : DownloadStored(t, r)
    \/ \E t \in Downloaders, r \in Responses : DownloadNextUrl(t, r)
    \/ \E t \in Downloaders, r \in Responses : DownloadFailed(t, r)
    \/ \E t \in Downloaders : SemaphoreGranted(t)

SpecCache == InitCache /\ [][NextCache]_vars

\* C9: a call of download_text that finds a cache file at its key returns
\* the file's path with no HTTP request and no write; and of two calls for
\* the same identifier that both return, the second begun after the first
\* ended, the second issues no request and writes nothing, at most one of
\* them retrieves the text, both return the same path, and the file holds the
\* same text at both returns unless a third call for the key overlapped.
C9_SequentialCallsFetchOnce ==
    /\ \A j \in 1..Len(done) :
          done[j].hit =>
             /\ done[j].status = "returned"
             /\ done[j].requests = 0 /\ done[j].retrievals = 0 /\ ~done[j].wrote
             /\ done[j].path = CachePath(done[j].key)
    /\ \A t \in DOMAIN dl : dl[t].pc = "fetching" => ~dl[t].hit
    /\ \A i, j \in 1..Len(done) :
          (/\ i <= done[j].calledAfter
           /\ done[i].identifier = done[j].identifier
           /\ done[i].status = "returned"
           /\ done[j].status = "returned")
          => /\ done[i].retrievals + done[j].retrievals <= 1
             /\ done[j].requests = 0 /\ ~done[j].wrote
             /\ done[i].path = done[j].path
             /\ (~done[i].overlap /\ ~done[j].overlap) => done[i].content = done[j].content

\* a call that stored its file from the second URL, then a call for the same
\* identifier that found it
C9_Witness ==
    /\ Len(done) = 2
    /\ done[1].wrote /\ done[1].requests = 2
    /\ done[2].hit /\ done[2].calledAfter = 1
    /\ done[2].identifier = done[1].identifier

\* the task that the latest call of self.client.get belongs to
Requester(log) == log[Len(log)].task

\* C10 as stated: in every execution, concurrent calls included, no step
\* taken after the first write of a key's file issues a full-text request
\* for that key or writes the file again.
C10_NoStepAfterTheWriteRefetches ==
    [][\A k \in DOMAIN writes :
          writes[k] > 0 =>
             /\ writes'[k] = writes[k]
             /\ Len(started') > Len(started) => dl'[Requester(started')].key # k]_vars

\* C10, amended: once a key's file has been written, no call of
\* download_text that begins afterwards goes on to fetch it; the requests and
\* writes that follow the first write come only from calls that had found no
\* file before it.
C10_CallsAfterTheWriteDoNotFetch ==
    [][\A k \in DOMAIN writes :
          writes[k] > 0 =>
             \A t \in DOMAIN dl :
                (dl[t].pc = "idle" /\ dl'[t].pc = "fetching") => dl'[t].key # k]_vars

\* a file written twice by two calls that both found no file, and requested
\* again after its first write
C10_Witness ==
    /\ \E k \in DOMAIN writes : writes[k] = 2
    /\ Len(done) = 2
    /\ done[1].wrote /\ done[2].wrote
    /\ ~done[2].hit /\ done[2].calledAfter = 0

\* the calls that stored the text they retrieved at key k, for the document
\* of identifier id
StoredFor(k, id) ==
    {i \in 1..Len(done) :
        /\ done[i].key = k /\ done[i].wrote /\ done[i].status = "returned"
        /\ NormalizeIdentifier(done[i].identifier) = NormalizeIdentifier(id)}

\* a download_text call ends by raising
CallRaises == Len(done') = Len(done) + 1 /\ done'[Len(done')].status = "raised"

VariantsInOrder(id) ==
    << TEXT_BASE_URL \o <<"/">> \o NormalizeIdentifier(id) \o S_dot_texteBrut,
       TEXT_BASE_URL \o <<"/">> \o NormalizeIdentifier(id) \o S_slash_texteBrut >>

-----------------------------------------------------------------------------
(* client.py: get_snippets and _parse_content_search_response               *)

MaxSnippetTasks == 2
MaxSnippetCalls == 2
MaxItems == 2

SnippetTasks == 1..MaxSnippetTasks

\* the index after the run of characters that are not whitespace, from i
NonSpaceEnd(s, i) ==
    IF \A j \in i..Len(s) : ~IsSpace(s[j]) THEN Len(s) + 1
    ELSE CHOOSE j \in i..Len(s) : IsSpace(s[j]) /\ \A k \in i..(j - 1) : ~IsSpace(s[k])

RECURSIVE SplitFrom(_, _)
SplitFrom(s, i) ==
    IF i > Len(s) THEN <<>>
    ELSE IF IsSpace(s[i]) THEN SplitFrom(s, i + 1)
    ELSE <<SubSeq(s, i, NonSpaceEnd(s, i) - 1)>> \o SplitFrom(s, NonSpaceEnd(s, i))

\* str.split()
Split(s) == SplitFrom(s, 1)

\* lines 286-299 for one item
SnippetOf(item) ==
    [text |-> Join(Split(ReSub("tag", <<>>, item.content.text.v)), <<" ">>),
     page |-> IF HasText(item.p_id) THEN item.p_id.text ELSE None]

RECURSIVE SnippetsFrom(_)
\* the loop of lines 282-299
SnippetsFrom(items) ==
    IF items = <<>> THEN <<>>
    ELSE IF HasText(Head(items).content) /\ SnippetOf(Head(items)).text # <<>>
         THEN <<SnippetOf(Head(items))>> \o SnippetsFrom(Tail(items))
         ELSE SnippetsFrom(Tail(items))

\* _parse_content_search_response: ET.fromstring raises on a text that is
\* not well-formed XML, and line 301 turns that into the empty list
ParseContentSearchResponse(xml) ==
    IF xml.wellFormed THEN SnippetsFrom(xml.items) ELSE <<>>

\*   a <b>x</b>  y     <i>     x
T_marked == <<"a"," ","<","b",">","x","<","/","b",">"," "," ","y">>
T_tag == <<"<","i",">">>
T_page == <<"P","A","G","_","1">>

Items ==
    {[content |-> Elem(T_marked), p_id |-> Elem(T_page)],
     [content |-> Elem(<<"x">>), p_id |-> Absent],
     [content |-> Elem(T_tag), p_id |-> Elem(T_page)],
     [content |-> EmptyElem, p_id |-> Elem(T_page)],
     [content |-> Absent, p_id |-> EmptyElem]}

NotXml == [wellFormed |-> FALSE, items |-> <<>>]
Xml(items) == [wellFormed |-> TRUE, items |-> items]

SnippetBodies == {NotXml} \cup {Xml(is) : is \in SeqsUpTo(Items, MaxItems)}

\* What the await of self.client.get gives get_snippets.
SnippetResponses ==
    {[raised |-> TRUE, status |-> 0, xml |-> NotXml],
     [raised |-> FALSE, status |-> 500, xml |-> NotXml],
     [raised |-> FALSE, status |-> 404, xml |-> Xml(<<>>)]}
    \cup {[raised |-> FALSE, status |-> 200, xml |-> b] : b \in SnippetBodies}

\* the request failed: a transport error or a status that is not a success
FetchFailed(r) == r.raised \/ RaisesForStatus(r)

\*   ark:/1/x   1/y
SnippetIdentifiers == {<<"a","r","k",":","/","1","/","x">>, <<"1","/","y">>}

\*   x    x with a space before
SnippetQueries == {<<"x">>, <<" ","x">>}

NoSnippetCall == [pc |-> "idle", identifier |-> <<>>, query |-> <<>>, params |-> <<>>]

SnippetCallsBegun ==
    Len(snDone) + Cardinality({u \in SnippetTasks : sn[u].pc # "idle"})

\* get_snippets(identifier, query) up to where _rate_limited_get suspends
\* (lines 244-256)
GetSnippetsCall(t, id, q) ==
    /\ sn[t].pc = "idle"
    /\ SnippetCallsBegun < MaxSnippetCalls
    /\ sn' = [sn EXCEPT ![t] =
                [pc |-> "fetching", identifier |-> id, query |-> q,
                 params |-> [ark |-> AfterLast(ReplaceStr(NormalizeIdentifier(id), S_ark_slash, <<>>),
                                               <<"/">>),
                             query |-> Strip(q)]]]
    /\ RateLimitedGet(t, semValue)
    /\ UNCHANGED <<snDone, now, minInterval, maxConcurrent, outcome,
                   parserVars, escapeVars, searchVars, cacheVars, normVars>>

\* The request ends with a success status: get_snippets returns what
\* _parse_content_search_response makes of the body (lines 257-260).
GetSnippetsReturns(t, r) ==
    /\ sn[t].pc = "fetching"
    /\ lpc[t] = "get"
    /\ ~FetchFailed(r)
    /\ snDone' = Append(snDone,
          [task |-> t, identifier |-> sn[t].identifier, query |-> sn[t].query,
           params |-> sn[t].params, answer |-> r,
           status |-> "returned", snippets |-> ParseContentSearchResponse(r.xml),
           error |-> ""])
    /\ sn' = [sn EXCEPT ![t] = NoSnippetCall]
    /\ semValue' = semValue + 1
    /\ lpc' = [lpc EXCEPT ![t] = "idle"]
    /\ outcome' = [outcome EXCEPT ![t] = "response"]
    /\ UNCHANGED <<now, minInterval, maxConcurrent, lockHolder, lastRequestTime, wakeAt,
                   started, parserVars, escapeVars, searchVars, cacheVars, normVars>>

\* The request ends with a transport error or a status that
\* raise_for_status refuses: line 262 catches the exception and line 263
\* raises RuntimeError to the caller.
GetSnippetsRaises(t, r) ==
    /\ sn[t].pc = "fetching"
    /\ lpc[t] = "get"
    /\ FetchFailed(r)
    /\ snDone' = Append(snDone,
          [task |-> t, identifier |-> sn[t].identifier, query |-> sn[t].query,
           params |-> sn[t].params, answer |-> r,
           status |-> "raised", snippets |-> <<>>, error |-> "RuntimeError"])
    /\ sn' = [sn EXCEPT ![t] = NoSnippetCall]
    /\ semValue' = semValue + 1
    /\ lpc' = [lpc EXCEPT ![t] = "idle"]
    /\ outcome' = [outcome EXCEPT ![t] = IF r.raised THEN "HTTPError" ELSE "response"]
    /\ UNCHANGED <<now, minInterval, maxConcurrent, lockHolder, lastRequestTime, wakeAt,
                   started, parserVars, escapeVars, searchVars, cacheVars, normVars>>

\* A client constructed with min_request_interval = 0 and the tasks that
\* call get_snippets.
InitSnippets ==
    /\ NormIdle
    /\ ParserIdle
    /\ EscapeIdle
    /\ SearchIdle
    /\ CacheIdle
    /\ now = 0
    /\ minInterval = 0
    /\ maxConcurrent \in 1..MaxConcurrent
    /\ semValue = maxConcurrent
    /\ lockHolder = 0
    /\ lastRequestTime = 0
    /\ lpc = [t \in Tasks |-> IF t \in SnippetTasks THEN "idle" ELSE "off"]
    /\ wakeAt = [t \in Tasks |-> 0]
    /\ outcome = [t \in Tasks |-> "none"]
    /\ started = <<>>
    /\ sn = [t \in SnippetTasks |-> NoSnippetCall]
    /\ snDone = <<>>

NextSnippets ==
    \/ \E t \in SnippetTasks, id \in SnippetIdentifiers, q \in SnippetQueries :
          GetSnippetsCall(t, id, q)
    \/ \E t \in SnippetTasks, r \in SnippetResponses : GetSnippetsReturns(t, r)
    \/ \E t \in SnippetTasks, r \in SnippetResponses : GetSnippetsRaises(t, r)
    \/ \E t \in SnippetTasks : SemaphoreGranted(t)

SpecSnippets == InitSnippets /\ [][NextSnippets]_vars

\* C13: a call of get_snippets whose request fails, by a transport error or
\* by a status that is not a success, returns the empty snippet list and
\* raises nothing.
C13_FailedFetchGivesEmptyList ==
    \A j \in 1..Len(snDone) :
       FetchFailed(snDone[j].answer) =>
          snDone[j].status = "returned" /\ snDone[j].snippets = <<>>

-----------------------------------------------------------------------------
(* Properties of search's reading of the response, checked under           *)
(* SpecResults                                                             *)

\* the records of the response that have a Dublin-Core block, in order
RecordsWithDc == SelectSeq(served.xml.records, LAMBDA rec : rec.dc)

\* nothing but the records can make search fail on this response
EnvelopeReadable ==
    /\ ~served.raised /\ ~RaisesForStatus(served) /\ served.xml.wellFormed
    /\ served.xml.total.present => IsIntText(served.xml.total.text)

\* C14: a record with no Dublin-Core block is skipped and search does not
\* fail for it: whenever the response is readable apart from its records,
\* search returns, and the documents are those of the records that have a
\* Dublin-Core block, in response order, each what _parse_record makes of
\* its own record alone.
C14_RecordsWithoutDcSkipped ==
    /\ (spc \in {"returned", "failed"} /\ EnvelopeReadable) => spc = "returned"
    /\ spc = "returned" =>
          /\ Len(result.documents) = Len(RecordsWithDc)
          /\ \A k \in 1..Len(RecordsWithDc) :
                result.documents[k] = ParseRecord(RecordsWithDc[k]).v
          /\ result.page = sargs.page

\* a page of three records whose second has no Dublin-Core block
C14_Witness ==
    /\ spc = "returned"
    /\ Len(served.xml.records) = 3
    /\ served.xml.records[1].dc /\ ~served.xml.records[2].dc /\ served.xml.records[3].dc
    /\ Len(result.documents) = 2
    /\ result.documents[1].title # result.documents[2].title

-----------------------------------------------------------------------------
(* Properties of _rate_limited_get, checked under SpecFetch                 *)

\* C15: a call of _rate_limited_get issues at most one request. A request
\* of task t is issued only in a step that takes t's call from before its
\* self.client.get to inside it, one request per step; and the step in
\* which the request ends, by a response or by a transport error, ends the
\* call with that outcome and issues no request.
C15_OneRequestPerCall ==
    [][\A t \in Tasks :
          /\ (Len(started') > Len(started) /\ Requester(started') = t) =>
                /\ Len(started') = Len(started) + 1
                /\ lpc[t] \in {"idle", "sem", "lock", "sleep"}
                /\ lpc'[t] = "get"
          /\ (lpc[t] = "get" /\ lpc'[t] # "get") =>
                /\ lpc'[t] = "idle"
                /\ outcome'[t] \in {"response", "HTTPError"}
                /\ started' = started
          /\ lpc[t] = "get" => (lpc'[t] \in {"get", "idle"})
          /\ (outcome'[t] = "HTTPError" /\ outcome'[t] # outcome[t]) =>
                (lpc[t] = "get" /\ lpc'[t] = "idle" /\ started' = started)]_vars

\* a call whose request raised a transport error: the task is idle again
\* and its one request is the only one made
C15_Witness ==
    /\ Len(started) = 1
    /\ outcome[started[1].task] = "HTTPError"
    /\ lpc[started[1].task] = "idle"
    /\ Waiting("sem") \cup Waiting("lock") \cup Waiting("sleep") \cup Waiting("get") = {}

-----------------------------------------------------------------------------
(* The implicit AND, checked under SpecParse                                *)

\* toks without its k-th token
WithoutToken(toks, k) == SubSeq(toks, 1, k - 1) \o SubSeq(toks, k + 1, Len(toks))

\* C16: for every input that parses, leaving out any one explicit AND token
\* gives a token list that parses to the same AST.
C16_AndTokenMayBeOmitted ==
    ppc \in {"parsed", "returned"} =>
       \A k \in 1..Len(tokens) :
          tokens[k].type = "AND" =>
             /\ Parse(WithoutToken(tokens, k)).err = ""
             /\ Parse(WithoutToken(tokens, k)).node = ast

\* an input that parsed with an explicit AND before a NOT
C16_Witness ==
    /\ ppc = "parsed"
    /\ \E k \in 1..(Len(tokens) - 1) : tokens[k].type = "AND" /\ tokens[k + 1].type = "NOT"
    /\ ast.type = "and"

-----------------------------------------------------------------------------
(* The paging of search, checked under SpecSearch                           *)

\* C17: the request carries the page size min(records_per_page, 50) and the
\* start offset (page - 1) * size + 1 for that same size.
C17_OffsetMatchesCarriedPageSize ==
    (SearchBuilt \/ SearchRequested) =>
       /\ params.maximumRecords = IntToChars(Min(sargs.records_per_page, MAX_RECORDS))
       /\ params.startRecord =
             IntToChars((sargs.page - 1) * Min(sargs.records_per_page, MAX_RECORDS) + 1)

-----------------------------------------------------------------------------
(* The cache key and the spellings of an identifier, checked under         *)
(* SpecCache                                                               *)

\* C18: two spellings that _normalize_identifier maps to the same ARK use
\* the same cache file: a call that begins after a call for the same ARK
\* has returned finds the file and returns the same path.
C18_SpellingsShareTheCacheFile ==
    \A i, j \in 1..Len(done) :
       (/\ i <= done[j].calledAfter
        /\ done[i].status = "returned"
        /\ NormalizeIdentifier(done[i].identifier) = NormalizeIdentifier(done[j].identifier))
       => /\ done[j].key = done[i].key
          /\ done[j].hit
          /\ done[j].path = done[i].path

-----------------------------------------------------------------------------
(* The title of a returned document, checked under SpecResults              *)

\* C19: every document that search returns has a title that is a string:
\* the text of its record's title when the record has one, "Untitled"
\* otherwise.
C19_TitleIsAlwaysAString ==
    spc = "returned" =>
       \A k \in 1..Len(result.documents) :
          /\ result.documents[k].title.set
          /\ result.documents[k].title = TitleOrUntitled(RecordsWithDc[k].title)

-----------------------------------------------------------------------------
(* client.py: _html_to_plain_text as a run of its statements                *)

MaxPieces == 6

\*   x   a space   a newline   <br>   <p>
Pieces == {<<"x">>, <<" ">>, <<NL>>, <<"<","b","r",">">>, <<"<","p",">">>}

\* the pages: the pieces written one after the other
Pages == {Flatten(ps) : ps \in SeqsUpTo(Pieces, MaxPieces)}

InitNormalize ==
    /\ ParserIdle
    /\ EscapeIdle
    /\ SearchIdle
    /\ FetchIdle
    /\ CacheIdle
    /\ SnippetIdle
    /\ htmlText \in Pages
    /\ npc = "called"
    /\ ntext = <<>>

\* lines 449-461: tags become line breaks or are dropped
NormalizeTags ==
    /\ npc = "called"
    /\ ntext' = StripTags(htmlText)
    /\ npc' = "tags"
    /\ UNCHANGED <<htmlText, parserVars, escapeVars, searchVars, fetchVars, cacheVars, snippetVars>>

\* lines 462-463: character references, carriage returns
NormalizeEntities ==
    /\ npc = "tags"
    /\ ntext' = ReplaceStr(Unescape(ntext), <<CR>>, <<>>)
    /\ npc' = "text"
    /\ UNCHANGED <<htmlText, parserVars, escapeVars, searchVars, fetchVars, cacheVars, snippetVars>>

\* lines 466-472: white space, and the return
NormalizeWhitespace ==
    /\ npc = "text"
    /\ ntext' = Strip(CollapseWhitespace(ntext))
    /\ npc' = "returned"
    /\ UNCHANGED <<htmlText, parserVars, escapeVars, searchVars, fetchVars, cacheVars, snippetVars>>

NextNormalize == NormalizeTags \/ NormalizeEntities \/ NormalizeWhitespace

SpecNormalize == InitNormalize /\ [][NextNormalize]_vars

\* C20: the text that _html_to_plain_text returns holds no run of three or
\* more newlines, no run of two or more spaces, and no space next to a
\* newline.
C20_NoWhitespaceRunsInOutput ==
    npc = "returned" =>
       /\ \A i \in 1..(Len(ntext) - 2) : ~(ntext[i] = NL /\ ntext[i + 1] = NL /\ ntext[i + 2] = NL)
       /\ \A i \in 1..(Len(ntext) - 1) :
             /\ ~(ntext[i] = " " /\ ntext[i + 1] = " ")
             /\ ~(ntext[i] = " " /\ ntext[i + 1] = NL)
             /\ ~(ntext[i] = NL /\ ntext[i + 1] = " ")

-----------------------------------------------------------------------------
(* The quoting of the filter values, checked under SpecSearch               *)

\* the filter parts with every value escaped as _escape_cql_literal escapes
\* the terms of the text query
EscapedFilterParts(a) ==
    FilterParts([a EXCEPT
        !.title = IF a.title.set THEN Some(EscapeCqlLiteral(Strip(a.title.v))) ELSE None,
        !.creators = IF a.creators.set
                     THEN Some([k \in 1..Len(a.creators.v) |-> EscapeCqlLiteral(a.creators.v[k])])
                     ELSE None,
        !.doc_types = IF a.doc_types.set
                      THEN Some([k \in 1..Len(a.doc_types.v) |-> EscapeCqlLiteral(a.doc_types.v[k])])
                      ELSE None,
        !.language = IF a.language.set THEN Some(EscapeCqlLiteral(a.language.v)) ELSE None])

\* the search clauses on the title that the composed query holds, as the
\* phrase rules read it
TitleAtoms ==
    {at \in Atoms(ReadClause(CqlBody).node) : at[1] = <<"d","c",".","t","i","t","l","e">>}

\* C21: in the composed query every filter value stands inside its quoted
\* literal with its double quotes and backslashes escaped, so that the query
\* reads as a clause whose only search clause on the title is the one for
\* the title given.
C21_FilterValuesEscaped ==
    (SearchBuilt \/ SearchRequested) =>
       /\ SubSeq(cqlParts, Len(cqlParts) - Len(FilterParts(sargs)) + 1, Len(cqlParts))
             = EscapedFilterParts(sargs)
       /\ (sargs.title.set /\ Strip(sargs.title.v) # <<>>) =>
             /\ ReadClause(CqlBody).ok
             /\ \A at \in TitleAtoms : at[3] = Strip(sargs.title.v)

-----------------------------------------------------------------------------
(* Progress of _rate_limited_get under fair scheduling                      *)
(*                                                                         *)
(* The event loop resumes every coroutine that is ready to run: a waiter   *)
(* of the semaphore or of the lock once it is released, a sleeper once     *)
(* its delay has passed. The loop's clock advances, and every request      *)
(* sent by self.client.get ends, with a response or with an error. No      *)
(* task is obliged to call.                                                *)

FairFetch ==
    /\ \A t \in Tasks : WF_vars(SemaphoreGranted(t))
    /\ \A t \in Tasks : WF_vars(LockGranted(t))
    /\ \A t \in Tasks : WF_vars(SleepDone(t))
    /\ \A t \in Tasks : WF_vars(GetEnds(t))
    /\ WF_vars(Tick)

SpecFetchFair == SpecFetch /\ FairFetch

\* C22: every call of _rate_limited_get that is kept waiting (for the
\* semaphore, for the pacing lock or in its pacing sleep) eventually issues
\* its request, every call eventually ends, and once no call is under way
\* the semaphore has all its slots back, whether the requests returned or
\* raised.
C22_EveryCallIssuesAndReleases ==
    /\ [](Holders \cup Waiting("sem") = {} => semValue = maxConcurrent /\ lockHolder = 0)
    /\ \A t \in Tasks : (lpc[t] \in {"sem", "lock", "sleep"}) ~> (lpc[t] = "get")
    /\ \A t \in Tasks : (lpc[t] # "idle") ~> (lpc[t] = "idle")

\* a client with one admission slot: a request has raised, and another
\* task's request is outstanding on the slot the failed one gave back
C22_Witness ==
    /\ maxConcurrent = 1
    /\ minInterval > 0
    /\ \E t, u \in Tasks :
          /\ t # u
          /\ outcome[t] = "HTTPError"
          /\ lpc[t] = "idle"
          /\ lpc[u] = "get"
=============================================================================
